---- MODULE Spec2Model ----
(***************************************************************************)
(* Verification model of the legacy-MySQL -> PostgreSQL migration scripts. *)
(*                                                                         *)
(* The module holds several state machines over one set of variables:      *)
(*   SpecOrch / FairSpecOrch  migrate_all.py, the top-level orchestrator   *)
(*   SpecGroup                Clinics/migrate.py, the group runner         *)
(*   SpecStatus               map_status_value of the Cases migration      *)
(*   SpecRows                 the row loops of the per-table scripts       *)
(*                            running against a transactional store        *)
(* A specification leaves the variables of the other machines untouched.   *)
(***************************************************************************)
EXTENDS Integers, Sequences, FiniteSets, TLC

VARIABLES
    \* ---- migrate_all.py ----
    stepState,    \* step number -> "not-started" | "running" | "succeeded" | "failed" | "missing"
    orchPc,       \* "loop" | "running" | "returned" | "exited"
    stepIdx,      \* i of `for i, script_path in enumerate(migration_scripts, 1)`
    returncode,   \* step number -> result.returncode of its child, None before it returns
    exitCode,     \* exit code of the orchestrator process, None while it runs
    startCount,   \* step number -> how many times subprocess.run started it
    populated,    \* destination tables filled by the steps that succeeded
    \* ---- Clinics/migrate.py ----
    listing,      \* os.listdir(current_dir), in the order the OS returns it
    scripts,      \* result of get_numbered_scripts()
    gIdx,         \* position of run_scripts in `scripts`
    gPc,          \* "start" | "loop" | "running" | "after_loop" | "exited"
    gStarted,     \* the scripts started so far, in start order
    gFailed,      \* position in `scripts` of the child that exited non-zero, 0 if none
    gExit,        \* exit code of the group runner, None while it runs
    \* ---- map_status_value ----
    flags,        \* <<draft_status, submitted_status, completed_status, archived_status>>
    statusResult, \* value returned by map_status_value, None before the call
    \* ---- row loops ----
    script,       \* which per-table script runs
    nRows,        \* len(rows) of the source result set
    rows,         \* the source rows the loop has reached so far, in query order
    pg,           \* destination connection: [committed, pending, tx]
    counters,     \* the run's counters
    okIds,        \* keys whose INSERT statement was accepted (history)
    rowPc,        \* "start" | "loop" | "done"
    \* ---- command line and in-memory state of a script ----
    opts,         \* the switches the script was started with
    mem,          \* what a script keeps in memory; Some([source, first]) when it is run again
    schema,       \* column defaults and triggers of the destination: [committed, current]
    \* ---- a call of validate_and_sanitize_amount ----
    sanitize      \* [pc, amount, float_side, first, second]

orchVars   == <<stepState, orchPc, stepIdx, returncode, exitCode, startCount, populated>>
groupVars  == <<listing, scripts, gIdx, gPc, gStarted, gFailed, gExit>>
statusVars == <<flags, statusResult>>
rowVars    == <<script, nRows, rows, pg, counters, okIds, rowPc>>
extVars    == <<opts, mem, schema, sanitize>>
vars       == <<orchVars, groupVars, statusVars, rowVars, extVars>>

\* Python's None / SQL NULL: the empty tuple; a present value v is <<v>>.
None == <<>>
Some(v) == <<v>>

(***************************************************************************)
(* Values the variables of a machine hold while another machine runs.      *)
(***************************************************************************)
OrchIdle ==
    /\ stepState = [k \in 1..1 |-> "not-started"]
    /\ orchPc = "idle"
    /\ stepIdx = 0
    /\ returncode = [k \in 1..1 |-> None]
    /\ exitCode = None
    /\ startCount = [k \in 1..1 |-> 0]
    /\ populated = {}

GroupIdle ==
    /\ listing = <<>>
    /\ scripts = <<>>
    /\ gIdx = 0
    /\ gPc = "idle"
    /\ gStarted = <<>>
    /\ gFailed = 0
    /\ gExit = None

StatusIdle ==
    /\ flags = <<>>
    /\ statusResult = None

RowsIdle ==
    /\ script = "none"
    /\ nRows = 0
    /\ rows = <<>>
    /\ pg = <<>>
    /\ counters = <<>>
    /\ okIds = {}
    /\ rowPc = "idle"

\* No call of validate_and_sanitize_amount is under way.
SanitizeIdle == [pc |-> "idle"]

ExtIdle ==
    /\ opts = <<>>
    /\ mem = <<>>
    /\ schema = <<>>
    /\ sanitize = SanitizeIdle

(***************************************************************************)
(*                      migrate_all.py : orchestrator                      *)
(***************************************************************************)
\* migration_scripts, the fixed execution order.
migration_scripts == <<
    "Users/migrate.py",
    "Clinics/1_tbl_practice__Clinics_ClinicLocations.py",
    "Invoices/1_RadiologistInvoices.py",
    "Cases/1_tbl_cases__Cases.py",
    "Invoices/2_RadiologistInvoiceCaseServices.py",
    "Invoices/3_tbl_client_invoices__Invoices.py",
    "Invoices/4_InvoiceCaseServices.py",
    "Invoices/5_ClinicLocationServiceCharges.py",
    "Cases/2_tbl_cases_files_new__CaseFiles.py",
    "Cases/3_tbl_study_purposes__CaseStudyPurposes.py",
    "Cases/4_tbl_cases__ClinicPatient_CasePatients.py",
    "Cases/5_tbl_cases_report_CaseServices.py" >>

NumSteps == Len(migration_scripts)
Steps == 1..NumSteps

\* Return codes a child process can hand to subprocess.run: 0, an error
\* code, and a negative code when the child was killed by a signal.
ReturnCodes == {0, 1, 2, -9}

\* Destination tables each step of migration_scripts fills.
Populates(k) ==
    CASE k = 1  -> {"Users"}
      [] k = 2  -> {"Clinics", "ClinicLocations"}
      [] k = 3  -> {"RadiologistInvoices"}
      [] k = 4  -> {"Cases"}
      [] k = 5  -> {"RadiologistInvoiceCaseServices"}
      [] k = 6  -> {"Invoices"}
      [] k = 7  -> {"InvoiceCaseServices"}
      [] k = 8  -> {"ClinicLocationServiceCharges"}
      [] k = 9  -> {"CaseFiles"}
      [] k = 10 -> {"CaseStudyPurposes"}
      [] k = 11 -> {"ClinicPatients", "CasePatients"}
      [] k = 12 -> {"CaseServices"}
      [] OTHER  -> {}

\* Tables no migration step fills: they come with the restored schema.
PreExisting == {"MasterServices"}

FK(k, t, c, r) == [step |-> k, table |-> t, column |-> c, ref |-> r]

\* The foreign-key columns the INSERT statement of each step writes.
ForeignKeys == {
    FK(2,  "Clinics", "ownerUserId", "Users"),
    FK(2,  "ClinicLocations", "clinicId", "Clinics"),
    FK(3,  "RadiologistInvoices", "radioLogistUserId", "Users"),
    FK(4,  "Cases", "doctorUserId", "Users"),
    FK(4,  "Cases", "radioLogistUserId", "Users"),
    FK(4,  "Cases", "createdByUserId", "Users"),
    FK(4,  "Cases", "clinicLocationId", "ClinicLocations"),
    FK(4,  "Cases", "invoiceId", "Invoices"),
    FK(5,  "RadiologistInvoiceCaseServices", "invoiceId", "RadiologistInvoices"),
    FK(5,  "RadiologistInvoiceCaseServices", "caseId", "Cases"),
    FK(6,  "Invoices", "clinicLocationId", "ClinicLocations"),
    FK(7,  "InvoiceCaseServices", "invoiceId", "Invoices"),
    FK(7,  "InvoiceCaseServices", "caseId", "Cases"),
    FK(8,  "ClinicLocationServiceCharges", "clinicLocationId", "ClinicLocations"),
    FK(8,  "ClinicLocationServiceCharges", "serviceId", "MasterServices"),
    FK(9,  "CaseFiles", "caseId", "Cases"),
    FK(9,  "CaseFiles", "uploadByUserId", "Users"),
    FK(10, "CaseStudyPurposes", "caseId", "Cases"),
    FK(11, "ClinicPatients", "clinicId", "Clinics"),
    FK(11, "CasePatients", "caseId", "Cases"),
    FK(11, "CasePatients", "clinicPatientId", "ClinicPatients"),
    FK(12, "CaseServices", "caseId", "Cases"),
    FK(12, "CaseServices", "serviceId", "MasterServices") }

\* A faulty run_script that reports success whatever the return code.
run_script_always_true(rc) == TRUE

\* run_script: the child's return code decides success.
run_script(rc) == rc = 0

\* A faulty loop that passes over every other step.
next_step_skip(i) == i + 2

\* enumerate(): the step after step i.
next_step(i) == i + 1

InitOrch ==
    /\ stepState = [k \in Steps |-> "not-started"]
    /\ orchPc = "loop"
    /\ stepIdx = 1
    /\ returncode = [k \in Steps |-> None]
    /\ exitCode = None
    /\ startCount = [k \in Steps |-> 0]
    /\ populated = {}
    /\ GroupIdle /\ StatusIdle /\ RowsIdle /\ ExtIdle

\* Loop head, os.path.exists(full_path) is False: sys.exit(1).
ScriptNotFound ==
    /\ orchPc = "loop"
    /\ stepIdx <= NumSteps
    /\ stepState' = [stepState EXCEPT ![stepIdx] = "missing"]
    /\ orchPc' = "exited"
    /\ exitCode' = Some(1)
    /\ UNCHANGED <<stepIdx, returncode, startCount, populated>>
    /\ UNCHANGED <<groupVars, statusVars, rowVars, extVars>>

\* Loop head, the file exists: run_script starts the child with subprocess.run.
StartScript ==
    /\ orchPc = "loop"
    /\ stepIdx <= NumSteps
    /\ stepState' = [stepState EXCEPT ![stepIdx] = "running"]
    /\ startCount' = [startCount EXCEPT ![stepIdx] = @ + 1]
    /\ orchPc' = "running"
    /\ UNCHANGED <<stepIdx, returncode, exitCode, populated>>
    /\ UNCHANGED <<groupVars, statusVars, rowVars, extVars>>

\* The child process terminates; subprocess.run returns its return code.
ChildExit ==
    /\ orchPc = "running"
    /\ \E rc \in ReturnCodes : returncode' = [returncode EXCEPT ![stepIdx] = Some(rc)]
    /\ orchPc' = "returned"
    /\ UNCHANGED <<stepState, stepIdx, exitCode, startCount, populated>>
    /\ UNCHANGED <<groupVars, statusVars, rowVars, extVars>>

\* run_script returned True: the loop goes on with the next script.
StepSucceeded ==
    /\ orchPc = "returned"
    /\ run_script(returncode[stepIdx][1])
    /\ stepState' = [stepState EXCEPT ![stepIdx] = "succeeded"]
    /\ populated' = populated \cup Populates(stepIdx)
    /\ stepIdx' = next_step(stepIdx)
    /\ orchPc' = "loop"
    /\ UNCHANGED <<returncode, exitCode, startCount>>
    /\ UNCHANGED <<groupVars, statusVars, rowVars, extVars>>

\* run_script returned False: "Stopping migration process.", sys.exit(1).
StepFailed ==
    /\ orchPc = "returned"
    /\ ~run_script(returncode[stepIdx][1])
    /\ stepState' = [stepState EXCEPT ![stepIdx] = "failed"]
    /\ orchPc' = "exited"
    /\ exitCode' = Some(1)
    /\ UNCHANGED <<stepIdx, returncode, startCount, populated>>
    /\ UNCHANGED <<groupVars, statusVars, rowVars, extVars>>

\* The loop is exhausted: "MIGRATION COMPLETE", main returns, exit code 0.
MigrationComplete ==
    /\ orchPc = "loop"
    /\ stepIdx > NumSteps
    /\ orchPc' = "exited"
    /\ exitCode' = Some(0)
    /\ UNCHANGED <<stepState, stepIdx, returncode, startCount, populated>>
    /\ UNCHANGED <<groupVars, statusVars, rowVars, extVars>>

NextOrch ==
    \/ ScriptNotFound
    \/ StartScript
    \/ ChildExit
    \/ StepSucceeded
    \/ StepFailed
    \/ MigrationComplete

SpecOrch == InitOrch /\ [][NextOrch]_vars

\* The operating system schedules the orchestrator, and a child that is
\* started terminates (the premise "every step exits").
FairSpecOrch == SpecOrch /\ WF_vars(NextOrch)

(***************************************************************************)
(* Claims about the orchestrator.                                          *)
(***************************************************************************)
StepBroken(k) ==
    \/ stepState[k] = "missing"
    \/ returncode[k] # None /\ returncode[k] # Some(0)

Started(k) == startCount[k] > 0

ExitedWithOne == orchPc = "exited" /\ exitCode = Some(1)

\* C1: once a script of the list has exited with a non-zero code, or its file
\* is missing, no later script is ever started (no start happens at all from
\* then on) and the orchestrator terminates with exit code 1.
C1_FailFast ==
    /\ [][(\E k \in Steps : StepBroken(k)) => startCount' = startCount]_vars
    /\ [](\A k \in Steps : StepBroken(k) =>
              \A j \in Steps : j > k => ~Started(j) /\ stepState[j] = "not-started")
    /\ [](orchPc = "exited" /\ (\E k \in Steps : StepBroken(k)) => exitCode = Some(1))
    /\ ((\E k \in Steps : StepBroken(k)) ~> ExitedWithOne)

\* Witness of C1: a script in the middle of the list exited non-zero and the
\* orchestrator has stopped.
C1_Witness ==
    /\ ExitedWithOne
    /\ \E k \in Steps : k < NumSteps /\ returncode[k] = Some(2) /\ stepState[k] = "failed"

NoStepFails ==
    \A k \in Steps : ~StepBroken(k)

ReportedComplete ==
    /\ orchPc = "exited"
    /\ exitCode = Some(0)
    /\ \A k \in Steps : stepState[k] = "succeeded" /\ startCount[k] = 1

\* C2: the orchestrator is a linear single-pass runner: every step is started
\* at most once, step k is started only after steps 1..k-1 all exited 0, at
\* most one step runs at a time, a finished step is never run again, and when
\* every step exits 0 the orchestrator eventually reports completion with all
\* twelve steps run, in list order.
C2_LinearSinglePass ==
    /\ [](\A k \in Steps : startCount[k] <= 1)
    /\ [](\A k \in Steps : Started(k) =>
              \A j \in Steps : j < k => returncode[j] = Some(0) /\ stepState[j] = "succeeded")
    /\ [](Cardinality({k \in Steps : stepState[k] = "running"}) <= 1)
    /\ [][\A k \in Steps : stepState[k] \in {"succeeded", "failed", "missing"}
              => stepState'[k] = stepState[k] /\ startCount'[k] = startCount[k]]_vars
    /\ [](exitCode = Some(0) => ReportedComplete)
    /\ ([]NoStepFails => <>ReportedComplete)

\* Witness of C2: all twelve steps ran once and completion was reported.
C2_Witness ==
    /\ ReportedComplete
    /\ \A k \in Steps : returncode[k] = Some(0)

\* C3: whenever a step runs, every foreign-key column it writes references a
\* table that an earlier step (or the step itself, or the restored schema)
\* has already filled.
C3_ForeignKeyOrder ==
    orchPc \in {"running", "returned"} =>
        \A fk \in ForeignKeys :
            fk.step = stepIdx =>
                fk.ref \in populated \cup Populates(stepIdx) \cup PreExisting

(***************************************************************************)
(*                   Clinics/migrate.py : group runner                     *)
(***************************************************************************)
\* A file name is a sequence of characters.
Digits == {"0", "1", "2", "3", "4", "5", "6", "7", "8", "9"}

DigitVal(c) ==
    CASE c = "0" -> 0 [] c = "1" -> 1 [] c = "2" -> 2 [] c = "3" -> 3
      [] c = "4" -> 4 [] c = "5" -> 5 [] c = "6" -> 6 [] c = "7" -> 7
      [] c = "8" -> 8 [] c = "9" -> 9

\* Number of leading decimal digits of name, the group (\d+) of the pattern.
RECURSIVE LeadingDigits(_)
LeadingDigits(name) ==
    IF name # <<>> /\ Head(name) \in Digits
    THEN 1 + LeadingDigits(Tail(name))
    ELSE 0

\* int(match.group(1))
RECURSIVE ParseInt(_)
ParseInt(ds) ==
    IF ds = <<>> THEN 0
    ELSE 10 * ParseInt(SubSeq(ds, 1, Len(ds) - 1)) + DigitVal(ds[Len(ds)])

\* re.compile(r'^(\d+)_.*\.py$').match(file): Some(num) on a match, else None.
pattern_match(name) ==
    LET n == LeadingDigits(name)
        rest == SubSeq(name, n + 1, Len(name))
    IN  IF /\ n >= 1
           /\ rest # <<>> /\ Head(rest) = "_"
           /\ Len(rest) >= 4
           /\ SubSeq(rest, Len(rest) - 2, Len(rest)) = <<".", "p", "y">>
        THEN Some(ParseInt(SubSeq(name, 1, n)))
        ELSE None

\* The loop of get_numbered_scripts: the (num, file) pairs in listing order.
RECURSIVE numbered_scripts(_)
numbered_scripts(files) ==
    IF files = <<>> THEN <<>>
    ELSE LET m == pattern_match(Head(files))
         IN  IF m # None
             THEN <<[num |-> m[1], file |-> Head(files)]>> \o numbered_scripts(Tail(files))
             ELSE numbered_scripts(Tail(files))

\* list.sort(key=lambda x: x[0]) is stable: insert each pair after the pairs
\* whose key is not larger.
RECURSIVE InsertByNum(_, _)
InsertByNum(sorted, pair) ==
    IF sorted = <<>> THEN <<pair>>
    ELSE IF Head(sorted).num <= pair.num
         THEN <<Head(sorted)>> \o InsertByNum(Tail(sorted), pair)
         ELSE <<pair>> \o sorted

RECURSIVE SortByNum(_)
SortByNum(pairs) ==
    IF pairs = <<>> THEN <<>>
    ELSE InsertByNum(SortByNum(SubSeq(pairs, 1, Len(pairs) - 1)), pairs[Len(pairs)])

get_numbered_scripts(files) ==
    LET sorted == SortByNum(numbered_scripts(files))
    IN  [k \in 1..Len(sorted) |-> sorted[k].file]

\* The files a group directory may hold.
DirNames == {
    <<"1", "_", "a", ".", "p", "y">>,
    <<"0", "1", "_", "d", ".", "p", "y">>,
    <<"2", "_", "b", ".", "p", "y">>,
    <<"1", "0", "_", "c", ".", "p", "y">>,
    <<"m", "i", "g", "r", "a", "t", "e", ".", "p", "y">>,
    <<"3", "_", "n", ".", "t", "x", "t">> }

\* os.listdir returns the entries of the directory in arbitrary order.
Listings ==
    UNION { { l \in [1..n -> DirNames] : \A a, b \in 1..n : a # b => l[a] # l[b] }
            : n \in 0..Cardinality(DirNames) }

InitGroup ==
    /\ listing \in Listings
    /\ scripts = <<>>
    /\ gIdx = 0
    /\ gPc = "start"
    /\ gStarted = <<>>
    /\ gFailed = 0
    /\ gExit = None
    /\ OrchIdle /\ StatusIdle /\ RowsIdle /\ ExtIdle

\* __main__ up to the call of run_scripts; sys.exit(0) when nothing is numbered.
GroupCollect ==
    /\ gPc = "start"
    /\ scripts' = get_numbered_scripts(listing)
    /\ IF scripts' = <<>>
       THEN gPc' = "exited" /\ gExit' = Some(0) /\ gIdx' = gIdx
       ELSE gPc' = "loop" /\ gExit' = gExit /\ gIdx' = 1
    /\ UNCHANGED <<listing, gStarted, gFailed>>
    /\ UNCHANGED <<orchVars, statusVars, rowVars, extVars>>

\* run_scripts: subprocess.run starts the next script.
GroupStartScript ==
    /\ gPc = "loop"
    /\ gIdx <= Len(scripts)
    /\ gStarted' = Append(gStarted, scripts[gIdx])
    /\ gPc' = "running"
    /\ UNCHANGED <<listing, scripts, gIdx, gFailed, gExit>>
    /\ UNCHANGED <<orchVars, statusVars, rowVars, extVars>>

\* run_scripts: the child returned; non-zero -> break, zero -> next script.
GroupChildReturned ==
    /\ gPc = "running"
    /\ \E rc \in ReturnCodes :
          IF rc # 0
          THEN gFailed' = gIdx /\ gPc' = "after_loop" /\ gIdx' = gIdx
          ELSE gFailed' = gFailed /\ gPc' = "loop" /\ gIdx' = gIdx + 1
    /\ UNCHANGED <<listing, scripts, gStarted, gExit>>
    /\ UNCHANGED <<orchVars, statusVars, rowVars, extVars>>

\* run_scripts returns (loop exhausted or left by break) and the module ends:
\* the interpreter exits with code 0.
GroupEnd ==
    /\ \/ gPc = "loop" /\ gIdx > Len(scripts)
       \/ gPc = "after_loop"
    /\ gPc' = "exited"
    /\ gExit' = Some(0)
    /\ UNCHANGED <<listing, scripts, gIdx, gStarted, gFailed>>
    /\ UNCHANGED <<orchVars, statusVars, rowVars, extVars>>

NextGroup ==
    \/ GroupCollect
    \/ GroupStartScript
    \/ GroupChildReturned
    \/ GroupEnd

SpecGroup == InitGroup /\ [][NextGroup]_vars

\* C4: the group runner starts the numbered scripts in ascending order of
\* their numeric prefix, starts nothing after a script that exited non-zero,
\* and then exits with a non-zero code itself.
C4_GroupFailFast ==
    /\ \A a, b \in 1..Len(gStarted) :
          a < b => pattern_match(gStarted[a])[1] <= pattern_match(gStarted[b])[1]
    /\ gFailed # 0 => Len(gStarted) = gFailed
    /\ gPc = "exited" /\ gFailed # 0 => gExit # None /\ gExit # Some(0)

(***************************************************************************)
(*            Cases/1_tbl_cases__Cases.py : map_status_value               *)
(***************************************************************************)
\* Values a legacy status column can hold: NULL, 0, 1 and another number.
FlagValues == {None, Some(0), Some(1), Some(2)}

\* `1 if x == 1 else 0`
AsFlag(x) == IF x = Some(1) THEN 1 ELSE 0

\* A faulty variant: the completed test is made before the archived test.
map_status_value_completed_first(draft_status, submitted_status, completed_status, archived_status) ==
    LET draft     == AsFlag(draft_status)
        submitted == AsFlag(submitted_status)
        completed == AsFlag(completed_status)
        archived  == AsFlag(archived_status)
    IN  IF draft = 1 /\ submitted = 0 /\ completed = 0 /\ archived = 0 THEN "CREATED"
        ELSE IF submitted = 1 /\ completed = 0 /\ archived = 0 THEN "SUBMITED"
        ELSE IF completed = 1 THEN "COMPLETED"
        ELSE IF archived = 1 THEN "ARCHIVED"
        ELSE IF submitted = 1 THEN "SUBMITED"
        ELSE "DRAFT"

map_status_value(draft_status, submitted_status, completed_status, archived_status) ==
    LET draft     == AsFlag(draft_status)
        submitted == AsFlag(submitted_status)
        completed == AsFlag(completed_status)
        archived  == AsFlag(archived_status)
    IN  IF draft = 1 /\ submitted = 0 /\ completed = 0 /\ archived = 0 THEN "CREATED"
        ELSE IF submitted = 1 /\ completed = 0 /\ archived = 0 THEN "SUBMITED"
        ELSE IF completed = 1 /\ archived = 0 THEN "COMPLETED"
        ELSE IF archived = 1 THEN "ARCHIVED"
        ELSE IF completed = 1 THEN "COMPLETED"
        ELSE IF archived = 1 THEN "ARCHIVED"
        ELSE IF submitted = 1 THEN "SUBMITED"
        ELSE "DRAFT"

\* The table of test_status_mapping: flags and the status the test expects.
test_cases == {
    [in |-> <<1, 0, 0, 0>>, expected |-> "DRAFT"],
    [in |-> <<0, 1, 0, 0>>, expected |-> "SUBMITED"],
    [in |-> <<1, 1, 0, 0>>, expected |-> "SUBMITED"],
    [in |-> <<0, 0, 1, 0>>, expected |-> "COMPLETED"],
    [in |-> <<1, 1, 1, 0>>, expected |-> "COMPLETED"],
    [in |-> <<0, 0, 0, 1>>, expected |-> "ARCHIVED"],
    [in |-> <<1, 1, 1, 1>>, expected |-> "ARCHIVED"],
    [in |-> <<0, 0, 0, 0>>, expected |-> "DRAFT"],
    [in |-> <<1, 0, 1, 0>>, expected |-> "COMPLETED"] }

InitStatus ==
    /\ flags \in [1..4 -> FlagValues]
    /\ statusResult = None
    /\ OrchIdle /\ GroupIdle /\ RowsIdle /\ ExtIdle

\* status = map_status_value(row['draft_status'], row['submitted_status'],
\*                           row['completed_status'], row['archived_status'])
MapStatus ==
    /\ statusResult = None
    /\ statusResult' = Some(map_status_value(flags[1], flags[2], flags[3], flags[4]))
    /\ UNCHANGED flags
    /\ UNCHANGED <<orchVars, groupVars, rowVars, extVars>>

NextStatus == MapStatus

SpecStatus == InitStatus /\ [][NextStatus]_vars

IsSet(k) == flags[k] = Some(1)

\* Stages below SUBMITED: what a case with no higher flag is mapped to.
BaseStages == {"DRAFT", "CREATED"}

C6_DraftIsLowestStage ==
    statusResult # None =>
        \A t \in test_cases :
            (\A k \in 1..4 : flags[k] = Some(t.in[k])) => statusResult[1] = t.expected

(***************************************************************************)
(*      The destination connection (psycopg2, autocommit off)              *)
(*                                                                         *)
(* committed: the rows of the script's destination table that are durable. *)
(* pending:   the rows inserted by the transaction in progress.            *)
(* tx:        "idle" (no transaction), "open", or "aborted": a statement   *)
(*            failed, and PostgreSQL rejects every further statement until *)
(*            the transaction is rolled back.                              *)
(***************************************************************************)
\* How many source rows a run reads at most.
MaxRows == 3

\* get_postgres_connection(): a fresh connection, the table as found.
get_postgres_connection == [committed |-> {}, pending |-> {}, tx |-> "idle"]

\* Whether cursor.execute of a statement returns normally.  `accepted` is the
\* store's verdict on the statement itself (constraints, types, ranges).
ExecuteOk(db, accepted) == db.tx # "aborted" /\ accepted

\* Whether the store takes the INSERT of `row`: no row with that key yet.
KeyFree(db, row) == \A r \in db.committed \cup db.pending : r.id # row.id

\* cursor.execute(INSERT ...): the row joins the transaction, or the
\* statement raises and leaves the transaction aborted.
ExecuteInsert(db, row, accepted) ==
    IF ExecuteOk(db, accepted /\ KeyFree(db, row))
    THEN [db EXCEPT !.pending = @ \cup {row}, !.tx = "open"]
    ELSE [db EXCEPT !.tx = "aborted"]

\* cursor.execute(SELECT ...) that the store accepts when it can run.
ExecuteSelect(db) ==
    IF ExecuteOk(db, TRUE) THEN [db EXCEPT !.tx = "open"] ELSE db

\* connection.commit(): COMMIT of an aborted transaction is a ROLLBACK.
Commit(db) ==
    [db EXCEPT !.committed = IF db.tx = "aborted" THEN db.committed
                             ELSE db.committed \cup db.pending,
               !.pending = {},
               !.tx = "idle"]

\* A faulty rollback that keeps what the transaction had written before the
\* rejected statement.
Rollback_keeps(db) ==
    [db EXCEPT !.committed = @ \cup db.pending, !.pending = {}, !.tx = "idle"]

\* connection.rollback()
Rollback(db) == [db EXCEPT !.pending = {}, !.tx = "idle"]

\* cursor.execute('DELETE FROM ...') / TRUNCATE followed by commit.
ClearTable(db) == Commit([db EXCEPT !.committed = {}, !.pending = {}, !.tx = "open"])

\* The batch size of `if count % 100 == 0: commit()`.
CommitEvery == 100

\* A faulty batch commit that waits for one more accepted row.
PeriodicCommit_late(db, count) ==
    IF count % (CommitEvery + 1) = 0 THEN Commit(db) ELSE db

\* `if count % 100 == 0: commit()`
PeriodicCommit(db, count) == IF count % CommitEvery = 0 THEN Commit(db) ELSE db

\* The column defaults and triggers the restored schema comes with.
SchemaObjects ==
    {"Invoices.triggers", "RadiologistInvoices.riId.default",
     "RadiologistInvoices.invoiceNo.trigger",
     "RadiologistInvoiceCaseServices.ricsId.default",
     "ClinicLocationServiceCharges.clscId.default"}

\* The destination schema as restored: everything in place.
restored_schema == [committed |-> SchemaObjects, current |-> SchemaObjects]

\* ALTER TABLE ... run on connection db: DDL is transactional, and refused
\* like any statement while the transaction is aborted.
AlterOff(sc, db, object) ==
    IF ExecuteOk(db, TRUE) THEN [sc EXCEPT !.current = @ \ {object}] ELSE sc
AlterOn(sc, db, object) ==
    IF ExecuteOk(db, TRUE) THEN [sc EXCEPT !.current = @ \cup {object}] ELSE sc

\* What connection.commit() and connection.rollback() do to pending DDL.
SchemaCommit(sc, db) ==
    IF db.tx = "aborted" THEN [sc EXCEPT !.current = sc.committed]
    ELSE [sc EXCEPT !.committed = sc.current]
SchemaRollback(sc) == [sc EXCEPT !.current = sc.committed]

\* The switches of a script started without arguments by migrate_all.
LiveOpts == [dry_run |-> FALSE, skip_invalid |-> FALSE, default_clinic_id |-> None]

Bump(c, field) == [c EXCEPT ![field] = @ + 1]

\* The row a step of the loop has just read.
CurrentAfter == rows'[Len(rows')]

\* A step of a row loop reads the next source row.
ReadsRow(row) ==
    /\ rowPc = "loop"
    /\ Len(rows) < nRows
    /\ (mem # None /\ Len(rows) < Len(mem[1].source)) => row = mem[1].source[Len(rows) + 1]
    /\ rows' = Append(rows, row)
    /\ UNCHANGED <<script, nRows, rowPc>>
    /\ UNCHANGED <<orchVars, groupVars, statusVars, extVars>>

StartsLoop ==
    /\ rowPc = "start"
    /\ rowPc' = "loop"
    /\ UNCHANGED <<script, nRows, rows, okIds>>
    /\ UNCHANGED <<orchVars, groupVars, statusVars, extVars>>

EndsLoop ==
    /\ rowPc = "loop"
    /\ Len(rows) = nRows
    /\ rowPc' = "done"
    /\ UNCHANGED <<script, nRows, rows, okIds>>
    /\ UNCHANGED <<orchVars, groupVars, statusVars, extVars>>

(***************************************************************************)
(*             Cases/1_tbl_cases__Cases.py : migrate_cases                 *)
(***************************************************************************)
\* ---- text: a string is a sequence of characters ----
lower(c) ==
    CASE c = "A" -> "a" [] c = "B" -> "b" [] c = "F" -> "f" [] c = "M" -> "m" [] OTHER -> c

str_lower(s) == [k \in 1..Len(s) |-> lower(s[k])]

RECURSIVE lstrip(_)
lstrip(s) == IF s # <<>> /\ Head(s) = " " THEN lstrip(Tail(s)) ELSE s

RECURSIVE rstrip(_)
rstrip(s) ==
    IF s # <<>> /\ s[Len(s)] = " " THEN rstrip(SubSeq(s, 1, Len(s) - 1)) ELSE s

strip(s) == rstrip(lstrip(s))

\* str.split(): the maximal runs of non-blank characters.
RECURSIVE split(_)
split(s) ==
    LET t == lstrip(s)
    IN  IF t = <<>> THEN <<>>
        ELSE LET n == CHOOSE k \in 1..Len(t) :
                          /\ \A j \in 1..k : t[j] # " "
                          /\ k = Len(t) \/ t[k + 1] = " "
             IN  <<SubSeq(t, 1, n)>> \o split(SubSeq(t, n + 1, Len(t)))

\* ' '.join(parts)
RECURSIVE join(_)
join(parts) ==
    IF parts = <<>> THEN <<>>
    ELSE IF Len(parts) = 1 THEN parts[1]
    ELSE parts[1] \o <<" ">> \o join(Tail(parts))

\* normalized_name = ' '.join(reffering_doctor.strip().split()).lower()
normalized_name(reffering_doctor) == str_lower(join(split(strip(reffering_doctor))))

\* str(x or '').strip()
str_or_empty(x) == IF x = None THEN <<>> ELSE strip(x[1])

\* ---- the stores the script reads ----
\* tbl_users.user_id of the legacy store.
tbl_users == {1, 2}

U(uid, old, title, first, last) ==
    [uId |-> uid, olduserid |-> old, nameTitle |-> title, firstName |-> first, lastName |-> last]

\* The "Users" table of the destination: one user carrying olduserid 1, one
\* known by name only, one carrying an olduserid that tbl_users lacks.
Users == {
    U(101, Some(1), None, Some(<<"B">>), Some(<<"a">>)),
    U(102, None, None, Some(<<"A">>), Some(<<"b">>)),
    U(103, Some(4), None, None, None) }

\* get_valid_doctor_ids
valid_doctor_ids == tbl_users

\* Rows of: SELECT ... FROM "Users" WHERE "olduserid" IS NOT NULL
\*          OR ("firstName" IS NOT NULL AND "lastName" IS NOT NULL)
UsersSelected ==
    {u \in Users : u.olduserid # None \/ (u.firstName # None /\ u.lastName # None)}

\* full_name of a Users row, as the name index computes it.
full_name(u) ==
    LET name_parts == <<str_or_empty(u.nameTitle), str_or_empty(u.firstName),
                        str_or_empty(u.lastName)>>
        kept == SelectSeq(name_parts, LAMBDA p : p # <<>>)
    IN  str_lower(strip(join(kept)))

\* olduserid_to_uid.get(k): Some(uId) or None.
olduserid_to_uid(k) ==
    IF \E u \in UsersSelected : u.olduserid = Some(k)
    THEN Some((CHOOSE u \in UsersSelected : u.olduserid = Some(k)).uId)
    ELSE None

\* name_to_uid.get(name): Some(uId) or None.
name_to_uid(name) ==
    IF \E u \in UsersSelected : full_name(u) # <<>> /\ full_name(u) = name
    THEN Some((CHOOSE u \in UsersSelected : full_name(u) # <<>> /\ full_name(u) = name).uId)
    ELSE None

\* A faulty ladder that asks the name index before the olduserid mapping.
mapped_doctor_uid_name_first(row) ==
    IF row.doctor_id \notin valid_doctor_ids THEN None
    ELSE IF row.reffering_doctor # None /\ row.reffering_doctor # Some(<<>>)
            /\ name_to_uid(normalized_name(row.reffering_doctor[1])) # None
         THEN name_to_uid(normalized_name(row.reffering_doctor[1]))
         ELSE olduserid_to_uid(row.doctor_id)

\* A faulty ladder that gives every case to the first user.
mapped_doctor_uid_first_user(row) == Some(101)

\* The doctor ladder of the row loop: Some(uId), or None when the row is
\* skipped.
mapped_doctor_uid(row) ==
    IF row.doctor_id \notin valid_doctor_ids THEN None
    ELSE IF olduserid_to_uid(row.doctor_id) # None THEN olduserid_to_uid(row.doctor_id)
    ELSE IF row.reffering_doctor # None /\ row.reffering_doctor # Some(<<>>)
         THEN name_to_uid(normalized_name(row.reffering_doctor[1]))
         ELSE None

\* "ClinicLocations" joined to "Clinics": each location with the owner of its
\* clinic.  The owner of the first location carries no olduserid.
CaseClinicLocations ==
    {[clId |-> 300, ownerUserId |-> 102], [clId |-> 301, ownerUserId |-> 101]}

\* SELECT "clId" FROM "ClinicLocations" ORDER BY "clId" ASC LIMIT 1
default_clinic_location_id ==
    Some(CHOOSE c \in {l.clId : l \in CaseClinicLocations} :
            \A d \in {l.clId : l \in CaseClinicLocations} : c <= d)

\* Users JOIN Clinics JOIN ClinicLocations WHERE olduserid IS NOT NULL, for
\* one olduserid.
LocationsOfDoctor(doctor_id) ==
    {l \in CaseClinicLocations :
        \E u \in Users : u.olduserid = Some(doctor_id) /\ l.ownerUserId = u.uId}

\* A faulty lookup that falls back on the default clinic location.
clinic_location_mapping_or_default(doctor_id) ==
    IF LocationsOfDoctor(doctor_id) # {}
    THEN Some((CHOOSE l \in LocationsOfDoctor(doctor_id) : TRUE).clId)
    ELSE default_clinic_location_id

\* clinic_location_mapping.get(doctor_id): Some(clId) or None.
clinic_location_mapping(doctor_id) ==
    IF LocationsOfDoctor(doctor_id) # {}
    THEN Some((CHOOSE l \in LocationsOfDoctor(doctor_id) : TRUE).clId)
    ELSE None

\* Legacy rows tbl_cases can hold; cases_id is the position in the result
\* set (ORDER BY cases_id), `accepted` the store's verdict on the INSERT,
\* client_invoice_id what case_invoice_mapping holds for the case.  The
\* second set gives a case of doctor 1 an invoice and a radiologist.
CaseRows(k) ==
    [cases_id : {k},
     doctor_id : {1, 2, 4, 9},
     reffering_doctor : {None, Some(<<" ", "A", " ", " ", "B", " ">>), Some(<<"b", "a">>)},
     accepted : BOOLEAN,
     assigned_radiologist_id : {None},
     client_invoice_id : {None}]
    \cup
    [cases_id : {k},
     doctor_id : {1},
     reffering_doctor : {None},
     accepted : {TRUE},
     assigned_radiologist_id : {Some(1), Some(4), Some(7)},
     client_invoice_id : {Some(7)}]

\* mapped_radiologist_uid = olduserid_to_uid.get(assigned_radiologist_id)
mapped_radiologist_uid(row) ==
    IF row.assigned_radiologist_id = None THEN None
    ELSE olduserid_to_uid(row.assigned_radiologist_id[1])

\* values of the INSERT INTO "Cases"
CasesValues(row) ==
    [id |-> row.cases_id,
     doctorUserId |-> mapped_doctor_uid(row),
     radioLogistUserId |-> mapped_radiologist_uid(row),
     clinicLocationId |-> clinic_location_mapping(row.doctor_id),
     createdByUserId |-> mapped_doctor_uid(row),
     invoiceId |-> row.client_invoice_id]

CasesCounters == [migrated_count |-> 0, error_count |-> 0, skipped_invalid_doctor_count |-> 0]

\* migrate_cases up to the row loop: connect, DELETE FROM "Cases", commit,
\* build the mappings.
CasesStart ==
    /\ script = "Cases"
    /\ StartsLoop
    /\ pg' = ExecuteSelect(ClearTable(pg))
    /\ counters' = CasesCounters

\* One iteration of `for row in rows`, its except clause included.
CasesRow ==
    /\ script = "Cases"
    /\ \E row \in CaseRows(Len(rows) + 1) :
        /\ ReadsRow(row)
        /\ IF mapped_doctor_uid(row) = None
           THEN /\ counters' = Bump(counters, "skipped_invalid_doctor_count")
                /\ UNCHANGED <<pg, okIds>>
           ELSE IF ExecuteOk(pg, row.accepted /\ KeyFree(pg, CasesValues(row)))
           THEN /\ counters' = Bump(counters, "migrated_count")
                /\ pg' = PeriodicCommit(ExecuteInsert(pg, CasesValues(row), row.accepted),
                                        counters'.migrated_count)
                /\ okIds' = okIds \cup {row.cases_id}
           ELSE /\ counters' = Bump(counters, "error_count")
                /\ pg' = Rollback(ExecuteInsert(pg, CasesValues(row), row.accepted))
                /\ UNCHANGED okIds

\* After the loop: the final commit; migrate_cases returns True.
CasesFinish ==
    /\ script = "Cases"
    /\ EndsLoop
    /\ pg' = Commit(pg)
    /\ UNCHANGED counters

(***************************************************************************)
(*   Cases/5_tbl_cases_report_CaseServices.py : migrate_case_services      *)
(***************************************************************************)
\* should_skip_record(status)
should_skip_record(status) == status # None /\ status \in {Some(0)}

\* case_mapping.get(old_case_id): the cases the Cases migration brought over.
case_mapping(old_case_id) == IF old_case_id \in {1, 2} THEN Some(old_case_id) ELSE None

\* service_mapping: old service id -> "MasterServices".sId
service_mapping(old_service_id) == IF old_service_id = 5 THEN Some(50) ELSE None

CaseServiceBase(k) ==
    [cases_report_id |-> k, status |-> Some(1), doctors_id |-> Some(1), cases_id |-> Some(1),
     add_services_id |-> Some(5), services_name |-> None, accepted |-> TRUE]

\* Legacy rows of tbl_cases_report: a good row, a row the store rejects, and
\* one row failing each check of the loop.
CaseServiceRows(k) ==
    { CaseServiceBase(k),
      [CaseServiceBase(k) EXCEPT !.accepted = FALSE],
      [CaseServiceBase(k) EXCEPT !.status = Some(0)],
      [CaseServiceBase(k) EXCEPT !.doctors_id = Some(9)],
      [CaseServiceBase(k) EXCEPT !.doctors_id = None],
      [CaseServiceBase(k) EXCEPT !.cases_id = Some(9)],
      [CaseServiceBase(k) EXCEPT !.cases_id = None],
      [CaseServiceBase(k) EXCEPT !.add_services_id = Some(9)] }

\* Which counter a row that is not inserted raises, "" for a row that
\* reaches the INSERT.
CaseServiceSkip(row) ==
    IF should_skip_record(row.status) THEN "skipped_records"
    ELSE IF row.doctors_id = None \/ row.doctors_id[1] \notin valid_doctor_ids
         THEN "skipped_invalid_doctor_count"
    ELSE IF row.cases_id = None THEN "skipped_records"
    ELSE IF case_mapping(row.cases_id[1]) = None THEN "skipped_records"
    ELSE IF row.add_services_id = None \/ service_mapping(row.add_services_id[1]) = None
         THEN "skipped_records"
    ELSE ""

CaseServiceValues(row) ==
    [id |-> row.cases_report_id,
     caseId |-> case_mapping(row.cases_id[1]),
     serviceId |-> service_mapping(row.add_services_id[1])]

CaseServicesCounters ==
    [successful_migrations |-> 0, skipped_records |-> 0, failed_records |-> 0,
     skipped_invalid_doctor_count |-> 0]

\* migrate_case_services up to the row loop: DELETE FROM "CaseServices", commit.
CaseServicesStart ==
    /\ script = "CaseServices"
    /\ StartsLoop
    /\ pg' = ExecuteSelect(ClearTable(pg))
    /\ counters' = CaseServicesCounters

\* One iteration of the row loop, its except clauses included.
CaseServicesRow ==
    /\ script = "CaseServices"
    /\ \E row \in CaseServiceRows(Len(rows) + 1) :
        /\ ReadsRow(row)
        /\ IF CaseServiceSkip(row) # ""
           THEN /\ counters' = Bump(counters, CaseServiceSkip(row))
                /\ UNCHANGED <<pg, okIds>>
           ELSE IF ExecuteOk(pg, row.accepted /\ KeyFree(pg, CaseServiceValues(row)))
           THEN /\ counters' = Bump(counters, "successful_migrations")
                /\ pg' = PeriodicCommit(ExecuteInsert(pg, CaseServiceValues(row), row.accepted),
                                        counters'.successful_migrations)
                /\ okIds' = okIds \cup {row.cases_report_id}
           ELSE /\ counters' = Bump(counters, "failed_records")
                /\ pg' = Rollback(ExecuteInsert(pg, CaseServiceValues(row), row.accepted))
                /\ UNCHANGED okIds

\* "Commit all changes"; migrate_case_services returns True.
CaseServicesFinish ==
    /\ script = "CaseServices"
    /\ EndsLoop
    /\ pg' = Commit(pg)
    /\ UNCHANGED counters

(***************************************************************************)
(* Invoices/5_tbl_user_service_charge__ClinicLocationServiceCharges.py     *)
(***************************************************************************)
\* map_service_id
map_service_id(old_service_id) == IF old_service_id = 6 THEN 5 ELSE old_service_id

\* get_clinic_location_id through olduserid -> uId -> cId -> clId.
get_clinic_location_id(user_id) == IF user_id = 1 THEN Some(301) ELSE None

\* "MasterServices".sId
MasterServices == {5}

ChargeRows(k) ==
    [usc_id : {k}, services_id : {5, 6, 9}, user_id : {1, 2}, accepted : BOOLEAN]

ChargeValues(row) ==
    [id |-> row.usc_id,
     clinicLocationId |-> get_clinic_location_id(row.user_id),
     serviceId |-> map_service_id(row.services_id)]

ChargeCounters ==
    [successful_migrations |-> 0, failed_migrations |-> 0, skipped_invalid_mapping |-> 0,
     foreign_key_violations |-> 0]

\* migrate_data up to the row loop: TRUNCATE, commit, drop the clscId
\* default, commit, build the mappings; `return` when there is no source row.
ChargesStart ==
    /\ script = "ClinicLocationServiceCharges"
    /\ rowPc = "start"
    /\ rowPc' = IF nRows = 0 THEN "done" ELSE "loop"
    /\ pg' = ExecuteSelect(ClearTable(pg))
    /\ schema' = SchemaCommit(AlterOff(schema, ClearTable(pg),
                                       "ClinicLocationServiceCharges.clscId.default"),
                              ClearTable(pg))
    /\ counters' = ChargeCounters
    /\ UNCHANGED <<script, nRows, rows, okIds, opts, mem, sanitize>>
    /\ UNCHANGED <<orchVars, groupVars, statusVars>>

\* One iteration of the row loop, its except clause included.
ChargesRow ==
    /\ script = "ClinicLocationServiceCharges"
    /\ \E row \in ChargeRows(Len(rows) + 1) :
        /\ ReadsRow(row)
        /\ IF get_clinic_location_id(row.user_id) = None
           THEN /\ counters' = Bump(counters, "skipped_invalid_mapping")
                /\ UNCHANGED <<pg, okIds>>
           ELSE IF map_service_id(row.services_id) \notin MasterServices
           THEN /\ counters' = Bump(counters, "foreign_key_violations")
                /\ pg' = ExecuteSelect(pg)
                /\ UNCHANGED okIds
           ELSE IF ExecuteOk(pg, row.accepted /\ KeyFree(pg, ChargeValues(row)))
           THEN /\ counters' = Bump(counters, "successful_migrations")
                /\ pg' = PeriodicCommit(ExecuteInsert(pg, ChargeValues(row), row.accepted),
                                        counters'.successful_migrations)
                /\ okIds' = okIds \cup {row.usc_id}
           ELSE /\ counters' = Bump(counters, "failed_migrations")
                /\ pg' = Rollback(ExecuteInsert(pg, ChargeValues(row), row.accepted))
                /\ UNCHANGED okIds

\* After the loop: commit, summary.
ChargesFinish ==
    /\ script = "ClinicLocationServiceCharges"
    /\ EndsLoop
    /\ pg' = Commit(pg)
    /\ UNCHANGED counters

(***************************************************************************)
(* Invoices/1_..._RadiologistInvoices.py : migrate_radiologist_invoices    *)
(***************************************************************************)
\* convert_month_to_number on a numeric month column.
convert_month_to_number(month) ==
    IF month = None \/ month = Some(0) THEN None
    ELSE IF 1 <= month[1] /\ month[1] <= 12 THEN month
    ELSE None

\* `int(year) if year else None`
year_number(year) == IF year = None \/ year = Some(0) THEN None ELSE year

\* The longest invoice number validate_invoice_number lets through.
MaxInvoiceNoLen == 30

RadInvBase(k) ==
    [id |-> k, month |-> Some(3), year |-> Some(2020), invoice_no_len |-> 8, accepted |-> TRUE]

\* Legacy rows of tbl_radiologist_invoices; invoice_no is kept by its length.
RadInvRows(k) ==
    { RadInvBase(k),
      [RadInvBase(k) EXCEPT !.accepted = FALSE],
      [RadInvBase(k) EXCEPT !.month = Some(13)],
      [RadInvBase(k) EXCEPT !.month = None],
      [RadInvBase(k) EXCEPT !.year = None],
      [RadInvBase(k) EXCEPT !.invoice_no_len = 31] }

\* A row none of the loop's checks turns away.
RadInvValid(row) ==
    /\ convert_month_to_number(row.month) # None
    /\ year_number(row.year) # None
    /\ row.invoice_no_len <= MaxInvoiceNoLen

RadInvValues(row) ==
    [id |-> row.id, monthNumber |-> convert_month_to_number(row.month),
     yearNumber |-> year_number(row.year)]

RadInvCounters == [migrated_count |-> 0, skipped_count |-> 0, failed_count |-> 0]

\* main up to migrate_radiologist_invoices: drop the riId default and the
\* trigger, commit, build the radiologist mapping.
RadInvStart ==
    /\ script = "RadiologistInvoices"
    /\ rowPc = "start"
    /\ rowPc' = "loop"
    /\ pg' = ExecuteSelect(Commit(pg))
    /\ schema' = SchemaCommit(AlterOff(AlterOff(schema, pg, "RadiologistInvoices.riId.default"),
                                       pg, "RadiologistInvoices.invoiceNo.trigger"), pg)
    /\ counters' = RadInvCounters
    /\ UNCHANGED <<script, nRows, rows, okIds, opts, mem, sanitize>>
    /\ UNCHANGED <<orchVars, groupVars, statusVars>>

\* main when the SELECT of migrate_radiologist_invoices on the legacy
\* database raises: the default and the trigger are already dropped and
\* committed; the except clause of main rolls back and re-raises.
RadInvFetchFails ==
    /\ script = "RadiologistInvoices"
    /\ rowPc = "start"
    /\ rowPc' = "done"
    /\ pg' = Rollback(ExecuteSelect(Commit(pg)))
    /\ schema' = SchemaRollback(
                    SchemaCommit(AlterOff(AlterOff(schema, pg, "RadiologistInvoices.riId.default"),
                                          pg, "RadiologistInvoices.invoiceNo.trigger"), pg))
    /\ counters' = RadInvCounters
    /\ UNCHANGED <<script, nRows, rows, okIds, opts, mem, sanitize>>
    /\ UNCHANGED <<orchVars, groupVars, statusVars>>

\* One iteration of `for record in mysql_records`; the except clause counts
\* the failure and goes on, without a rollback.
RadInvRow ==
    /\ script = "RadiologistInvoices"
    /\ \E row \in RadInvRows(Len(rows) + 1) :
        /\ ReadsRow(row)
        /\ IF convert_month_to_number(row.month) = None \/ year_number(row.year) = None
           THEN /\ counters' = Bump(counters, "skipped_count")
                /\ UNCHANGED <<pg, okIds>>
           ELSE IF row.invoice_no_len > MaxInvoiceNoLen
           THEN /\ counters' = Bump(counters, "failed_count")
                /\ UNCHANGED <<pg, okIds>>
           ELSE IF ExecuteOk(pg, row.accepted /\ KeyFree(pg, RadInvValues(row)))
           THEN /\ counters' = Bump(counters, "migrated_count")
                /\ pg' = ExecuteInsert(pg, RadInvValues(row), row.accepted)
                /\ okIds' = okIds \cup {row.id}
           ELSE /\ counters' = Bump(counters, "failed_count")
                /\ pg' = ExecuteInsert(pg, RadInvValues(row), row.accepted)
                /\ UNCHANGED okIds

\* main after the loop: "Commit transaction", then restore_riid_default and
\* restore_invoice_no_trigger on the idle connection, and commit.
RadInvFinish ==
    /\ script = "RadiologistInvoices"
    /\ rowPc = "loop"
    /\ Len(rows) = nRows
    /\ rowPc' = "done"
    /\ pg' = Commit(ExecuteSelect(Commit(pg)))
    /\ schema' = SchemaCommit(
                    AlterOn(AlterOn(SchemaCommit(schema, pg), Commit(pg),
                                    "RadiologistInvoices.riId.default"),
                            Commit(pg), "RadiologistInvoices.invoiceNo.trigger"),
                    Commit(pg))
    /\ UNCHANGED <<script, nRows, rows, okIds, counters, opts, mem, sanitize>>
    /\ UNCHANGED <<orchVars, groupVars, statusVars>>

(***************************************************************************)
(* Invoices/3_tbl_client_invoices__Invoices.py : run_migration, live mode  *)
(***************************************************************************)
InvoiceBase(k) ==
    [id |-> k, invoice_no_len |-> 8, invoice_type |-> Some("monthly"), user_id |-> 1,
     month |-> 3, accepted |-> TRUE]

\* Legacy rows of tbl_client_invoices; invoice_no is kept by its length.
InvoiceRows(k) ==
    { InvoiceBase(k),
      [InvoiceBase(k) EXCEPT !.accepted = FALSE],
      [InvoiceBase(k) EXCEPT !.user_id = 2],
      [InvoiceBase(k) EXCEPT !.invoice_no_len = 0],
      [InvoiceBase(k) EXCEPT !.invoice_no_len = 31],
      [InvoiceBase(k) EXCEPT !.invoice_type = None],
      [InvoiceBase(k) EXCEPT !.month = 13] }

\* resolve_clinic_location_id
resolve_clinic_location_id(user_id) == get_clinic_location_id(user_id)

\* transform_record: the transformed record, or None.
transform_record(record) ==
    IF record.invoice_no_len = 0 THEN None
    ELSE IF record.invoice_type = None THEN None
    ELSE IF record.invoice_no_len > MaxInvoiceNoLen THEN None
    ELSE IF ~(1 <= record.month /\ record.month <= 12) THEN None
    ELSE Some([id |-> record.id,
               clinicLocationId |-> resolve_clinic_location_id(record.user_id),
               monthNumber |-> record.month])

\* skipped_records is set to 0 by __init__ and read by print_summary; no
\* statement of the script raises it.
InvoiceCounters == [migrated_records |-> 0, failed_records |-> 0, skipped_records |-> 0]

\* run_migration up to the loop: in a live run disable the triggers and
\* commit; load the clinic mapping, fetch the source; `return False` when
\* there is no row.
InvoicesStart ==
    /\ script = "Invoices"
    /\ rowPc = "start"
    /\ rowPc' = IF nRows = 0 THEN "done" ELSE "loop"
    /\ pg' = IF opts.dry_run THEN ExecuteSelect(pg) ELSE ExecuteSelect(Commit(pg))
    /\ schema' = IF opts.dry_run THEN schema
                 ELSE SchemaCommit(AlterOff(schema, pg, "Invoices.triggers"), pg)
    /\ counters' = InvoiceCounters
    /\ UNCHANGED <<script, nRows, rows, okIds, opts, mem, sanitize>>
    /\ UNCHANGED <<orchVars, groupVars, statusVars>>

\* One iteration of the loop: transform_record, then insert_record, which
\* only validates in a dry run, and whose except clause counts the failure
\* and returns False, without a rollback.
InvoicesRow ==
    /\ script = "Invoices"
    /\ \E row \in InvoiceRows(Len(rows) + 1) :
        /\ ReadsRow(row)
        /\ IF transform_record(row) = None
           THEN UNCHANGED <<counters, pg, okIds>>
           ELSE IF opts.dry_run
           THEN /\ counters' = Bump(counters, "migrated_records")
                /\ UNCHANGED <<pg, okIds>>
           ELSE IF ExecuteOk(pg, row.accepted /\ KeyFree(pg, transform_record(row)[1]))
           THEN /\ counters' = Bump(counters, "migrated_records")
                /\ pg' = ExecuteInsert(pg, transform_record(row)[1], row.accepted)
                /\ okIds' = okIds \cup {row.id}
           ELSE /\ counters' = Bump(counters, "failed_records")
                /\ pg' = ExecuteInsert(pg, transform_record(row)[1], row.accepted)
                /\ UNCHANGED okIds

\* After the loop, in a live run: commit, enable the triggers again, commit.
InvoicesFinish ==
    /\ script = "Invoices"
    /\ rowPc = "loop"
    /\ Len(rows) = nRows
    /\ rowPc' = "done"
    /\ pg' = IF opts.dry_run THEN pg ELSE Commit(ExecuteSelect(Commit(pg)))
    /\ schema' = IF opts.dry_run THEN schema
                 ELSE SchemaCommit(AlterOn(SchemaCommit(schema, pg), Commit(pg),
                                           "Invoices.triggers"),
                                   Commit(pg))
    /\ UNCHANGED <<script, nRows, rows, okIds, counters, opts, mem, sanitize>>
    /\ UNCHANGED <<orchVars, groupVars, statusVars>>

(***************************************************************************)
(* Invoices/4_..._InvoiceCaseServices.py : migrate_data                    *)
(***************************************************************************)
\* "Invoices".iId and "Cases".cId present in the destination.
InvoicesPresent == {1}
CasesPresent == {1}

\* The validity verdict of validate_and_sanitize_amount: an amount that is
\* not a finite number is invalid; NULL and numbers are valid.
amount_valid(amount) == amount # "nan"

IcsBase(k) ==
    [id |-> k, client_invoice_id |-> 1, case_id |-> 1, total_amount |-> "number",
     accepted |-> TRUE]

\* Rows of the join tbl_client_invoice_details x tbl_client_invoice_reports.
IcsRows(k) ==
    { IcsBase(k),
      [IcsBase(k) EXCEPT !.accepted = FALSE],
      [IcsBase(k) EXCEPT !.client_invoice_id = 9],
      [IcsBase(k) EXCEPT !.case_id = 9],
      [IcsBase(k) EXCEPT !.total_amount = "nan"],
      [IcsBase(k) EXCEPT !.total_amount = "null"] }

\* The run the script is in: 1, or 2 when it was started again on the
\* destination its first run left. datetime.now() of a later run is later.
RunNumber == IF mem = None THEN 1 ELSE 2

\* The icsId the sequence hands out (RETURNING "icsId"): a later run draws
\* values above those of the first run.
icsId(row) == row.id + (RunNumber - 1) * MaxRows

IcsValues(row) ==
    [id |-> icsId(row), invoiceId |-> row.client_invoice_id, caseId |-> row.case_id]

IcsCounters ==
    [successful_migrations |-> 0, failed_migrations |-> 0, data_quality_issues |-> 0,
     foreign_key_violations |-> 0]

\* The counter the except clauses of migrate_data raise for the
\* MigrationError of insert_invoice_case_service, by the error's message;
\* "" when the row is inserted.
IcsOutcome(db, row) ==
    IF ~ExecuteOk(db, TRUE) THEN "failed_migrations"
    ELSE IF row.client_invoice_id \notin InvoicesPresent THEN "foreign_key_violations"
    ELSE IF row.case_id \notin CasesPresent THEN "foreign_key_violations"
    ELSE IF ~amount_valid(row.total_amount) THEN "data_quality_issues"
    ELSE IF ~ExecuteOk(db, row.accepted) THEN "failed_migrations"
    ELSE ""

\* migrate_data up to the loop: fetch the source; `return` when it is empty.
IcsStart ==
    /\ script = "InvoiceCaseServices"
    /\ rowPc = "start"
    /\ rowPc' = IF nRows = 0 THEN "done" ELSE "loop"
    /\ pg' = pg
    /\ counters' = IcsCounters
    /\ UNCHANGED <<script, nRows, rows, okIds>>
    /\ UNCHANGED <<orchVars, groupVars, statusVars, extVars>>

\* One iteration of the loop: validate_foreign_keys (two SELECTs), the
\* amount checks, the INSERT; every error is counted and the loop goes on,
\* without a rollback.
IcsRow ==
    /\ script = "InvoiceCaseServices"
    /\ \E row \in IcsRows(Len(rows) + 1) :
        /\ ReadsRow(row)
        /\ IF IcsOutcome(pg, row) = ""
           THEN /\ counters' = Bump(counters, "successful_migrations")
                /\ pg' = ExecuteInsert(pg, IcsValues(row), row.accepted)
                /\ okIds' = okIds \cup {row.id}
           ELSE /\ counters' = Bump(counters, IcsOutcome(pg, row))
                /\ pg' = IF IcsOutcome(pg, row) = "failed_migrations"
                         THEN [pg EXCEPT !.tx = "aborted"]
                         ELSE ExecuteSelect(pg)
                /\ UNCHANGED okIds

\* After the loop: "Commit transaction".
IcsFinish ==
    /\ script = "InvoiceCaseServices"
    /\ EndsLoop
    /\ pg' = Commit(pg)
    /\ UNCHANGED counters

(***************************************************************************)
(*                       The row-loop specification                        *)
(***************************************************************************)
RollbackScripts == {"Cases", "CaseServices", "ClinicLocationServiceCharges"}
NoRollbackScripts == {"RadiologistInvoices", "Invoices", "InvoiceCaseServices"}
Scripts == RollbackScripts \cup NoRollbackScripts

InitRows ==
    /\ script \in Scripts
    /\ nRows \in 0..MaxRows
    /\ rows = <<>>
    /\ pg = get_postgres_connection
    /\ counters = <<>>
    /\ okIds = {}
    /\ rowPc = "start"
    /\ opts = LiveOpts
    /\ mem = <<>>
    /\ schema = restored_schema
    /\ sanitize = SanitizeIdle
    /\ OrchIdle /\ GroupIdle /\ StatusIdle

NextRows ==
    \/ CasesStart
    \/ CasesRow
    \/ CasesFinish
    \/ CaseServicesStart
    \/ CaseServicesRow
    \/ CaseServicesFinish
    \/ ChargesStart
    \/ ChargesRow
    \/ ChargesFinish
    \/ RadInvStart
    \/ RadInvFetchFails
    \/ RadInvRow
    \/ RadInvFinish
    \/ InvoicesStart
    \/ InvoicesRow
    \/ InvoicesFinish
    \/ IcsStart
    \/ IcsRow
    \/ IcsFinish

SpecRows == InitRows /\ [][NextRows]_vars

(***************************************************************************)
(*                     Properties of the row loops                         *)
(***************************************************************************)
\* The rows of the destination table that carry the key `id`.
Stored(id) == {r \in pg.committed : r.id = id}

\* In the transaction or committed: every row the destination holds for the
\* connection.
Held == pg.committed \cup pg.pending

\* The doctor of a legacy case resolves: doctor_id is in tbl_users, and it
\* is in the olduserid mapping or the reffering_doctor name matches a user.
DoctorResolves(row) ==
    /\ row.doctor_id \in tbl_users
    /\ \/ \E u \in UsersSelected : u.olduserid = Some(row.doctor_id)
       \/ /\ row.reffering_doctor # None
          /\ \E u \in UsersSelected :
                 full_name(u) # <<>> /\ full_name(u) = normalized_name(row.reffering_doctor[1])

\* The uId the doctor resolves to: by olduserid first, by name otherwise.
ResolvedUid(row) ==
    IF \E u \in UsersSelected : u.olduserid = Some(row.doctor_id)
    THEN (CHOOSE u \in UsersSelected : u.olduserid = Some(row.doctor_id)).uId
    ELSE (CHOOSE u \in UsersSelected :
              full_name(u) # <<>> /\ full_name(u) = normalized_name(row.reffering_doctor[1])).uId

\* C7: after a run of the Cases migration, every legacy case whose doctor
\* resolves (and whose INSERT the store has no objection to) has exactly one
\* row in "Cases" with cId = cases_id, and that row's doctorUserId and
\* createdByUserId are the resolved uId.
C7_ResolvableCaseMigrated ==
    (script = "Cases" /\ rowPc = "done") =>
        \A k \in 1..Len(rows) :
            (DoctorResolves(rows[k]) /\ rows[k].accepted) =>
                /\ Cardinality(Stored(rows[k].cases_id)) = 1
                /\ \A r \in Stored(rows[k].cases_id) :
                       /\ r.doctorUserId = Some(ResolvedUid(rows[k]))
                       /\ r.createdByUserId = Some(ResolvedUid(rows[k]))

\* C8: a legacy case whose doctor cannot be resolved produces no "Cases"
\* row, raises skipped_invalid_doctor_count by exactly one and leaves
\* migrated_count and error_count as they were.
C8_UnresolvedDoctorSkipped ==
    /\ [][(script = "Cases" /\ rowPc = "loop" /\ Len(rows') = Len(rows) + 1
             /\ ~DoctorResolves(CurrentAfter))
          => /\ pg' = pg
             /\ counters'.skipped_invalid_doctor_count
                    = counters.skipped_invalid_doctor_count + 1
             /\ counters'.migrated_count = counters.migrated_count
             /\ counters'.error_count = counters.error_count]_vars
    /\ [](script = "Cases" =>
             \A k \in 1..Len(rows) :
                 ~DoctorResolves(rows[k]) => \A r \in Held : r.id # rows[k].cases_id)

\* A finished run in which one case was skipped although its doctor_id is in
\* tbl_users, one for a doctor_id outside tbl_users, and one was migrated.
C8_Witness ==
    /\ script = "Cases"
    /\ rowPc = "done"
    /\ \E i, j, k \in 1..Len(rows) :
           /\ ~DoctorResolves(rows[i]) /\ rows[i].doctor_id \in tbl_users
           /\ ~DoctorResolves(rows[j]) /\ rows[j].doctor_id \notin tbl_users
           /\ Stored(rows[k].cases_id) # {}
    /\ counters.skipped_invalid_doctor_count = 2
    /\ counters.migrated_count = 1

\* C9: in the Cases, CaseServices and ClinicLocationServiceCharges
\* migrations the rollback after a rejected insert discards only the
\* rejected row: every row whose insert succeeded is in the destination
\* table after the final commit.
C9_RollbackDiscardsOnlyRejected ==
    (script \in RollbackScripts /\ rowPc = "done") =>
        \A id \in okIds : Stored(id) # {}

\* The key of a source row in its destination table.
RowId(row) ==
    CASE script = "Cases" -> row.cases_id
      [] script = "CaseServices" -> row.cases_report_id
      [] script = "ClinicLocationServiceCharges" -> row.usc_id
      [] OTHER -> row.id

\* A row that passes every check its script makes before the INSERT.
PassesChecks(row) ==
    CASE script = "RadiologistInvoices" -> RadInvValid(row)
      [] script = "Invoices" -> transform_record(row) # None
      [] script = "InvoiceCaseServices" ->
             /\ row.client_invoice_id \in InvoicesPresent
             /\ row.case_id \in CasesPresent
             /\ amount_valid(row.total_amount)
      [] OTHER -> FALSE

\* C10: in the RadiologistInvoices, Invoices and InvoiceCaseServices
\* migrations, every valid row that comes after a row whose insert the store
\* rejected is in the destination table after the final commit.
C10_LaterRowsSurviveRejection ==
    (script \in NoRollbackScripts /\ rowPc = "done") =>
        \A j, k \in 1..Len(rows) :
            (/\ j < k
             /\ PassesChecks(rows[j]) /\ ~rows[j].accepted
             /\ PassesChecks(rows[k]) /\ rows[k].accepted)
            => Stored(RowId(rows[k])) # {}

(***************************************************************************)
(*   Clinics/1_tbl_practice__Clinics_ClinicLocations.py                    *)
(*   PracticeToClinicsDataMigrator                                         *)
(***************************************************************************)
\* The other machines stay as they are.
RowsOnly == UNCHANGED <<orchVars, groupVars, statusVars>>

\* sep.join(parts) on sequences of characters.
RECURSIVE join_with(_, _)
join_with(sep, parts) ==
    IF parts = <<>> THEN <<>>
    ELSE IF Len(parts) = 1 THEN parts[1]
    ELSE parts[1] \o sep \o join_with(sep, Tail(parts))

\* `if practice_data.get(field)`: neither None nor the empty string.
Truthy(x) == x # None /\ x # Some(<<>>)

\* full_address of create_clinic and of create_clinic_location.
full_address(p) ==
    LET fields == <<p.street_line_one, p.street_line_two, p.city, p.region, p.country>>
        kept == SelectSeq(fields, Truthy)
        address_parts == [k \in 1..Len(kept) |-> kept[k][1]]
    IN  IF address_parts = <<>> THEN None
        ELSE Some(join_with(<<",", " ">>, address_parts))

\* "Users".uId, ordered by uId.
all_postgres_users == {u.uId : u \in Users}

\* user_id_mapping of build_user_mapping: olduserid first, then a MySQL
\* user_id that is itself a uId.
user_id_mapping(user_id) ==
    IF \E u \in Users : u.olduserid = Some(user_id)
    THEN Some((CHOOSE u \in Users : u.olduserid = Some(user_id)).uId)
    ELSE IF user_id \in all_postgres_users THEN Some(user_id)
    ELSE None

\* available_users of build_user_mapping: the users owning no clinic.
available_users(db) ==
    all_postgres_users \
        {r.ownerUserId : r \in {x \in db.committed \cup db.pending : x.table = "Clinics"}}

PracticeBase(k) ==
    [practice_id |-> k, practice_name |-> "P", user_id |-> Some(1),
     street_line_one |-> Some(<<"S">>), street_line_two |-> Some(<<"T">>),
     city |-> Some(<<"C">>), region |-> Some(<<"R">>), country |-> Some(<<"K">>),
     clinic_accepted |-> TRUE, location_accepted |-> TRUE]

\* Rows of tbl_practice with a non-empty practice_name.
PracticeRows(k) ==
    { PracticeBase(k),
      [PracticeBase(k) EXCEPT !.street_line_two = None, !.region = Some(<<>>)],
      [PracticeBase(k) EXCEPT !.street_line_two = Some(<<" ">>)],
      [PracticeBase(k) EXCEPT !.street_line_one = None, !.street_line_two = None,
                              !.city = Some(<<>>), !.region = None, !.country = None],
      [PracticeBase(k) EXCEPT !.user_id = Some(102)],
      [PracticeBase(k) EXCEPT !.user_id = Some(9)],
      [PracticeBase(k) EXCEPT !.user_id = None],
      [PracticeBase(k) EXCEPT !.clinic_accepted = FALSE],
      [PracticeBase(k) EXCEPT !.location_accepted = FALSE] }

\* A faulty create_clinic that takes the mapped user whether or not it is
\* still available.
owner_user_id_any(p, available) ==
    IF p.user_id # None /\ user_id_mapping(p.user_id[1]) # None
    THEN user_id_mapping(p.user_id[1])
    ELSE None

\* owner_user_id of create_clinic: the mapped user when it is still in
\* available_users, None otherwise.
owner_user_id(p, available) ==
    IF p.user_id # None /\ user_id_mapping(p.user_id[1]) # None
                       /\ user_id_mapping(p.user_id[1])[1] \in available
    THEN user_id_mapping(p.user_id[1])
    ELSE None

\* The row create_clinic inserts; cId comes from the sequence.
ClinicRow(p, owner) ==
    [table |-> "Clinics", id |-> <<"Clinics", p.practice_id>>, ownerUserId |-> owner,
     title |-> p.practice_name, address |-> full_address(p)]

\* The row create_clinic_location inserts.
ClinicLocationRow(p) ==
    [table |-> "ClinicLocations", id |-> <<"ClinicLocations", p.practice_id>>,
     clinicId |-> <<"Clinics", p.practice_id>>, address |-> full_address(p)]

\* A clinic the destination holds before the run, owned by user 103.
ExistingClinic ==
    [table |-> "Clinics", id |-> <<"Clinics", 0>>, ownerUserId |-> 103,
     title |-> "Q", address |-> None]

ClinicsStats ==
    [migrated_clinics |-> 0, migrated_clinic_locations |-> 0, skipped_no_user |-> 0, failed |-> 0]

\* run up to the loop of migrate_data: connect, build_user_mapping; return
\* when there is no practice.
ClinicsStart ==
    /\ script = "Clinics"
    /\ rowPc = "start"
    /\ rowPc' = IF nRows = 0 THEN "done" ELSE "loop"
    /\ pg' = ExecuteSelect(pg)
    /\ mem' = Some([available_users |-> available_users(pg),
                     source |-> IF mem = None THEN <<>> ELSE mem[1].source,
                     first |-> IF mem = None THEN {} ELSE mem[1].first])
    /\ counters' = ClinicsStats
    /\ UNCHANGED <<script, nRows, rows, okIds, opts, schema, sanitize>>
    /\ RowsOnly

\* migrate_practice_record for the next practice: create_clinic,
\* create_clinic_location, commit.
ClinicsRow ==
    /\ script = "Clinics"
    /\ rowPc = "loop"
    /\ Len(rows) < nRows
    /\ \E p \in PracticeRows(Len(rows) + 1) :
        LET owner == owner_user_id(p, mem[1].available_users)
            withClinic == ExecuteInsert(pg, ClinicRow(p, owner[1]), p.clinic_accepted)
            withBoth == ExecuteInsert(withClinic, ClinicLocationRow(p), p.location_accepted)
        IN  /\ Len(rows) < Len(mem[1].source) => p = mem[1].source[Len(rows) + 1]
            /\ rows' = Append(rows, p)
            /\ mem' = IF owner = None THEN mem
                      ELSE Some([mem[1] EXCEPT !.available_users = @ \ {owner[1]}])
            /\ IF owner = None
               THEN /\ counters' = Bump(counters, "skipped_no_user")
                    /\ pg' = pg
               ELSE IF opts.dry_run
               THEN /\ counters' = Bump(Bump(counters, "migrated_clinics"),
                                        "migrated_clinic_locations")
                    /\ pg' = pg
               ELSE IF withClinic.tx = "aborted"
               THEN /\ counters' = Bump(counters, "skipped_no_user")
                    /\ pg' = Rollback(withClinic)
               ELSE IF withBoth.tx = "aborted"
               THEN /\ counters' = Bump(counters, "failed")
                    /\ pg' = Rollback(withBoth)
               ELSE /\ counters' = Bump(Bump(counters, "migrated_clinics"),
                                        "migrated_clinic_locations")
                    /\ pg' = Commit(withBoth)
    /\ UNCHANGED <<script, nRows, okIds, rowPc, opts, schema, sanitize>>
    /\ RowsOnly

\* The loop of migrate_data is exhausted; run closes the connections.
ClinicsFinish ==
    /\ script = "Clinics"
    /\ rowPc = "loop"
    /\ Len(rows) = nRows
    /\ rowPc' = "done"
    /\ pg' = Rollback(pg)
    /\ UNCHANGED <<script, nRows, rows, counters, okIds, opts, mem, schema, sanitize>>
    /\ RowsOnly

InitClinics ==
    /\ script = "Clinics"
    /\ nRows \in 0..MaxRows
    /\ rows = <<>>
    /\ pg \in {get_postgres_connection,
               [get_postgres_connection EXCEPT !.committed = {ExistingClinic}]}
    /\ counters = <<>>
    /\ okIds = {}
    /\ rowPc = "start"
    /\ opts \in [dry_run : BOOLEAN, skip_invalid : {FALSE}, default_clinic_id : {None}]
    /\ mem = <<>>
    /\ schema = restored_schema
    /\ sanitize = SanitizeIdle
    /\ OrchIdle /\ GroupIdle /\ StatusIdle

NextClinics ==
    \/ ClinicsStart
    \/ ClinicsRow
    \/ ClinicsFinish

SpecClinics == InitClinics /\ [][NextClinics]_vars

\* The operator starts the finished script a second time over the same
\* practices: a new process and connection, the destination as the first
\* run left it.
ClinicsRunAgain ==
    /\ script = "Clinics"
    /\ rowPc = "done"
    /\ nRows > 0
    /\ mem[1].source = <<>>
    /\ mem' = Some([available_users |-> {}, source |-> rows, first |-> pg.committed])
    /\ rowPc' = "start"
    /\ rows' = <<>>
    /\ counters' = <<>>
    /\ pg' = [get_postgres_connection EXCEPT !.committed = pg.committed]
    /\ UNCHANGED <<script, nRows, okIds, opts, schema, sanitize>>
    /\ RowsOnly

NextClinicsRerun ==
    \/ ClinicsStart
    \/ ClinicsRow
    \/ ClinicsFinish
    \/ ClinicsRunAgain

SpecClinicsRerun == InitClinics /\ [][NextClinicsRerun]_vars

\* The rows of one destination table.
Table(name) == {r \in pg.committed : r.table = name}

\* A value is blank: NULL or the empty string.
Blank(x) == x = None \/ Len(x[1]) = 0

\* The address the practice's sub-fields give: the non-blank ones, in order,
\* joined with ', '; NULL when all are blank.
ExpectedAddress(p) ==
    LET fields == <<p.street_line_one, p.street_line_two, p.city, p.region, p.country>>
        kept == SelectSeq(fields, LAMBDA x : ~Blank(x))
        parts == [k \in 1..Len(kept) |-> kept[k][1]]
    IN  IF parts = <<>> THEN None ELSE Some(join_with(<<",", " ">>, parts))

\* C11: after a live run of the Clinics migration, every practice whose
\* user_id resolves to a destination user (and whose inserts the store has
\* no objection to) has exactly one "Clinics" row and exactly one
\* "ClinicLocations" row linked to it by clinicId, both carrying the address
\* joined from the practice's non-blank sub-fields.
C11_OneClinicPerPractice ==
    (script = "Clinics" /\ rowPc = "done" /\ ~opts.dry_run) =>
        \A k \in 1..Len(rows) :
            (/\ rows[k].user_id # None
             /\ user_id_mapping(rows[k].user_id[1]) # None
             /\ rows[k].clinic_accepted /\ rows[k].location_accepted)
            => /\ Cardinality({c \in Table("Clinics") : c.id = <<"Clinics", k>>}) = 1
               /\ Cardinality({l \in Table("ClinicLocations") :
                                   l.clinicId = <<"Clinics", k>>}) = 1
               /\ \A r \in Table("Clinics") \cup Table("ClinicLocations") :
                      r.id[2] = k => r.address = ExpectedAddress(rows[k])

\* C12: in the InvoiceCaseServices migration a source row whose
\* client_invoice_id is no "Invoices".iId is not inserted and raises
\* foreign_key_violations by exactly one, wherever it stands in the run.
C12_MissingInvoiceCounted ==
    [][(/\ script = "InvoiceCaseServices"
        /\ rowPc = "loop"
        /\ Len(rows') = Len(rows) + 1
        /\ CurrentAfter.client_invoice_id \notin InvoicesPresent)
       => /\ pg'.committed = pg.committed
          /\ pg'.pending = pg.pending
          /\ counters'.foreign_key_violations = counters.foreign_key_violations + 1]_vars

(***************************************************************************)
(*   Cases/4_tbl_cases__ClinicPatient_CasePatients.py                      *)
(*   CasesToCasePatientsDataMigrator                                       *)
(***************************************************************************)
\* doctor_clinic_mapping.get(doctor_id): olduserid -> uId -> the clinic the
\* user owns.
doctor_clinic_mapping(doctor_id) == IF doctor_id = 1 THEN Some(201) ELSE None

\* get_clinic_id_for_doctor
get_clinic_id_for_doctor(doctor_id) ==
    IF doctor_id = None THEN None ELSE doctor_clinic_mapping(doctor_id[1])

CasePatientBase(k) ==
    [cases_id |-> k, doctor_id |-> Some(1),
     patient_firstname |-> <<"J">>, patient_lastname |-> <<"D">>, gender |-> Some(<<"M">>),
     patient_accepted |-> TRUE, case_patient_accepted |-> TRUE]

\* Rows of tbl_cases with non-empty patient names.
CasePatientRows(k) ==
    { CasePatientBase(k),
      [CasePatientBase(k) EXCEPT !.doctor_id = Some(2)],
      [CasePatientBase(k) EXCEPT !.doctor_id = Some(9)],
      [CasePatientBase(k) EXCEPT !.doctor_id = None],
      [CasePatientBase(k) EXCEPT !.patient_firstname = <<" ">>],
      [CasePatientBase(k) EXCEPT !.gender = Some(<<" ", "F", " ">>)],
      [CasePatientBase(k) EXCEPT !.gender = Some(<<"x">>)],
      [CasePatientBase(k) EXCEPT !.gender = Some(<<>>)],
      [CasePatientBase(k) EXCEPT !.gender = None],
      [CasePatientBase(k) EXCEPT !.patient_accepted = FALSE],
      [CasePatientBase(k) EXCEPT !.case_patient_accepted = FALSE] }

\* gender_mapping.get(gender_lower): the enum value, or None.
gender_mapping(gender_lower) ==
    CASE gender_lower \in {<<"m", "a", "l", "e">>, <<"m">>} -> Some("MALE")
      [] gender_lower \in {<<"f", "e", "m", "a", "l", "e">>, <<"f">>} -> Some("FEMALE")
      [] gender_lower \in {<<"o", "t", "h", "e", "r">>, <<"o">>} -> Some("OTHER")
      [] OTHER -> None

\* convert_gender, of a string.
convert_gender(mysql_gender) ==
    IF mysql_gender = <<>> THEN "OTHER"
    ELSE IF gender_mapping(strip(str_lower(mysql_gender))) = None THEN "OTHER"
    ELSE gender_mapping(strip(str_lower(mysql_gender)))[1]

\* check_existing_case_patient
check_existing_case_patient(db, case_id) ==
    \/ ~ExecuteOk(db, TRUE)
    \/ \E r \in db.committed \cup db.pending : r.table = "CasePatients" /\ r.caseId = case_id

\* The row find_or_create_clinic_patient inserts; cpId comes from the sequence.
ClinicPatientRow(c) ==
    [table |-> "ClinicPatients", id |-> <<"ClinicPatients", c.cases_id>>,
     clinicId |-> get_clinic_id_for_doctor(c.doctor_id),
     firstName |-> strip(c.patient_firstname), lastName |-> strip(c.patient_lastname),
     gender |-> convert_gender(strip(c.gender[1]))]

\* The row create_case_patient_record inserts.
CasePatientRow(c) ==
    [table |-> "CasePatients", id |-> <<"CasePatients", c.cases_id>>,
     caseId |-> c.cases_id, clinicPatientId |-> <<"ClinicPatients", c.cases_id>>,
     gender |-> convert_gender(strip(c.gender[1]))]

\* A CasePatients row (with its ClinicPatients row) the destination holds
\* before the run, for case 2.
ExistingCasePatients ==
    {[table |-> "ClinicPatients", id |-> <<"ClinicPatients", 0>>, clinicId |-> Some(201),
      firstName |-> <<"E">>, lastName |-> <<"F">>, gender |-> "FEMALE"],
     [table |-> "CasePatients", id |-> <<"CasePatients", 0>>, caseId |-> 2,
      clinicPatientId |-> <<"ClinicPatients", 0>>, gender |-> "FEMALE"]}

CasePatientsStats ==
    [migrated |-> 0, created_clinic_patients |-> 0, skipped_duplicates |-> 0, errors |-> 0,
     skipped_invalid_doctor_count |-> 0]

\* run up to the loop of migrate_data: connect, build the mappings, fetch
\* the cases; return when there is none.
CasePatientsStart ==
    /\ script = "CasePatients"
    /\ rowPc = "start"
    /\ rowPc' = IF nRows = 0 THEN "done" ELSE "loop"
    /\ pg' = ExecuteSelect(pg)
    /\ counters' = CasePatientsStats
    /\ UNCHANGED <<script, nRows, rows, okIds, opts, mem, schema, sanitize>>
    /\ RowsOnly

\* One iteration of the loop of migrate_data: the doctor check, then
\* migrate_case_patient_record with find_or_create_clinic_patient and
\* create_case_patient_record.  case_data.get('gender', '') is None for a
\* NULL gender (the key is in every fetched row), and .strip() on it raises
\* AttributeError, which the except clause of migrate_case_patient_record
\* counts as an error.
CasePatientsRow ==
    /\ script = "CasePatients"
    /\ rowPc = "loop"
    /\ Len(rows) < nRows
    /\ \E c \in CasePatientRows(Len(rows) + 1) :
        LET withPatient == ExecuteInsert(pg, ClinicPatientRow(c), c.patient_accepted)
            patientDone == IF withPatient.tx = "aborted" THEN Rollback(withPatient)
                           ELSE Commit(withPatient)
            withCase == ExecuteInsert(patientDone, CasePatientRow(c), c.case_patient_accepted)
        IN  /\ rows' = Append(rows, c)
            /\ IF c.doctor_id = None \/ c.doctor_id[1] \notin valid_doctor_ids
               THEN /\ counters' = Bump(counters, "skipped_invalid_doctor_count")
                    /\ pg' = pg
               ELSE IF check_existing_case_patient(pg, c.cases_id)
               THEN /\ counters' = Bump(counters, "skipped_duplicates")
                    /\ pg' = ExecuteSelect(pg)
               ELSE IF get_clinic_id_for_doctor(c.doctor_id) = None
                       \/ c.gender = None
                       \/ strip(c.patient_firstname) = <<>>
                       \/ strip(c.patient_lastname) = <<>>
               THEN /\ counters' = Bump(counters, "errors")
                    /\ pg' = ExecuteSelect(pg)
               ELSE IF withPatient.tx = "aborted"
               THEN /\ counters' = Bump(counters, "errors")
                    /\ pg' = patientDone
               ELSE IF opts.dry_run
               THEN /\ counters' = Bump(Bump(counters, "created_clinic_patients"), "migrated")
                    /\ pg' = patientDone
               ELSE IF withCase.tx = "aborted"
               THEN /\ counters' = Bump(Bump(counters, "created_clinic_patients"), "errors")
                    /\ pg' = Rollback(withCase)
               ELSE /\ counters' = Bump(Bump(counters, "created_clinic_patients"), "migrated")
                    /\ pg' = Commit(withCase)
    /\ UNCHANGED <<script, nRows, okIds, rowPc, opts, mem, schema, sanitize>>
    /\ RowsOnly

\* The loop is exhausted; run closes the connections.
CasePatientsFinish ==
    /\ script = "CasePatients"
    /\ rowPc = "loop"
    /\ Len(rows) = nRows
    /\ rowPc' = "done"
    /\ pg' = Rollback(pg)
    /\ UNCHANGED <<script, nRows, rows, counters, okIds, opts, mem, schema, sanitize>>
    /\ RowsOnly

(***************************************************************************)
(*          The scripts that take switches on the command line             *)
(***************************************************************************)
\* Clinics --dry-run, CasePatients --dry-run, Invoices --dry
\* --skip-invalid --default-clinic-id N.
SwitchScripts == {"Clinics", "CasePatients", "Invoices"}

\* The switches argparse can hand to each script.
Switches(name) ==
    IF name = "Invoices"
    THEN [dry_run : BOOLEAN, skip_invalid : BOOLEAN, default_clinic_id : {None, Some(7)}]
    ELSE [dry_run : BOOLEAN, skip_invalid : {FALSE}, default_clinic_id : {None}]

\* The destination tables of each script as they are before the run.
StoreBefore(name) ==
    [get_postgres_connection EXCEPT !.committed =
        CASE name = "Clinics" -> {ExistingClinic}
          [] name = "CasePatients" -> ExistingCasePatients
          [] OTHER -> {}]

InitSwitches ==
    /\ script \in SwitchScripts
    /\ nRows \in 0..MaxRows
    /\ rows = <<>>
    /\ pg = StoreBefore(script)
    /\ counters = <<>>
    /\ okIds = {}
    /\ rowPc = "start"
    /\ opts \in Switches(script)
    /\ mem = <<>>
    /\ schema = restored_schema
    /\ sanitize = SanitizeIdle
    /\ OrchIdle /\ GroupIdle /\ StatusIdle

NextSwitches ==
    \/ ClinicsStart
    \/ ClinicsRow
    \/ ClinicsFinish
    \/ CasePatientsStart
    \/ CasePatientsRow
    \/ CasePatientsFinish
    \/ InvoicesStart
    \/ InvoicesRow
    \/ InvoicesFinish

SpecSwitches == InitSwitches /\ [][NextSwitches]_vars

\* C13: a dry run writes nothing: at every moment of it the destination
\* tables hold what they held before the run, nothing is pending on the
\* connection, and the triggers and defaults are as they were.
C13_DryRunWritesNothing ==
    (script \in SwitchScripts /\ opts.dry_run) =>
        /\ pg.committed = StoreBefore(script).committed
        /\ pg.pending = {}
        /\ schema = restored_schema
    /\ sanitize = SanitizeIdle

\* C14: in a live run of the Invoices migration a row whose user_id has no
\* clinic-location mapping is skipped under --skip-invalid, and is otherwise
\* inserted with clinicLocationId = the --default-clinic-id value.
C14_StrategySwitch ==
    (script = "Invoices" /\ rowPc = "done" /\ ~opts.dry_run) =>
        \A k \in 1..Len(rows) :
            get_clinic_location_id(rows[k].user_id) = None =>
                IF opts.skip_invalid
                THEN Stored(rows[k].id) = {}
                ELSE /\ \A r \in Stored(rows[k].id) :
                            r.clinicLocationId = opts.default_clinic_id
                     /\ (transform_record(rows[k]) # None
                             /\ \A j \in 1..Len(rows) : rows[j].accepted)
                        => Stored(rows[k].id) # {}

(***************************************************************************)
(* Cases/2_tbl_cases_files_new__CaseFiles.py : migrate_data                *)
(***************************************************************************)
CaseFileBase(k) ==
    [id |-> k, cases_id |-> 1, uploaded_by |-> 1, usertype |-> "radiologist",
     accepted |-> TRUE]

\* Rows of tbl_cases_files_new.
CaseFileRows(k) ==
    { CaseFileBase(k),
      [CaseFileBase(k) EXCEPT !.accepted = FALSE],
      [CaseFileBase(k) EXCEPT !.cases_id = 9],
      [CaseFileBase(k) EXCEPT !.uploaded_by = 9],
      [CaseFileBase(k) EXCEPT !.uploaded_by = 9, !.usertype = "client"] }

\* A faulty INSERT of the CaseFiles script that stores the time of the run
\* in the caseId column as well.
CaseFileValues_stamped(row) ==
    [id |-> row.id, caseId |-> row.cases_id + RunNumber,
     uploadByUserId |-> olduserid_to_uid(row.uploaded_by), createdAt |-> RunNumber]

\* The values tuple of the INSERT INTO "CaseFiles"; createdAt is
\* datetime.now().
CaseFileValues(row) ==
    [id |-> row.id, caseId |-> row.cases_id,
     uploadByUserId |-> olduserid_to_uid(row.uploaded_by), createdAt |-> RunNumber]

CaseFileCounters ==
    [successful_migrations |-> 0, failed_migrations |-> 0, skipped_client |-> 0,
     foreign_key_violations |-> 0]

\* migrate_data up to the loop: TRUNCATE, commit, the mappings, the source
\* rows; `return` when there is none.
CaseFilesStart ==
    /\ script = "CaseFiles"
    /\ rowPc = "start"
    /\ rowPc' = IF nRows = 0 THEN "done" ELSE "loop"
    /\ pg' = ExecuteSelect(ClearTable(pg))
    /\ counters' = CaseFileCounters
    /\ UNCHANGED <<script, nRows, rows, okIds, extVars>>
    /\ RowsOnly

\* One iteration of the row loop, its except clause included.
CaseFilesRow ==
    /\ script = "CaseFiles"
    /\ \E row \in CaseFileRows(Len(rows) + 1) :
        /\ ReadsRow(row)
        /\ IF row.usertype = "client" /\ row.uploaded_by \notin tbl_users
           THEN /\ counters' = Bump(counters, "skipped_client")
                /\ UNCHANGED <<pg, okIds>>
           ELSE IF olduserid_to_uid(row.uploaded_by) = None
           THEN /\ counters' = Bump(counters, "failed_migrations")
                /\ UNCHANGED <<pg, okIds>>
           ELSE IF row.cases_id \notin CasesPresent
           THEN /\ counters' = Bump(counters, "foreign_key_violations")
                /\ pg' = ExecuteSelect(pg)
                /\ UNCHANGED okIds
           ELSE IF ExecuteOk(pg, row.accepted /\ KeyFree(pg, CaseFileValues(row)))
           THEN /\ counters' = Bump(counters, "successful_migrations")
                /\ pg' = PeriodicCommit(ExecuteInsert(pg, CaseFileValues(row), row.accepted),
                                        counters'.successful_migrations)
                /\ okIds' = okIds \cup {row.id}
           ELSE /\ counters' = Bump(counters, "failed_migrations")
                /\ pg' = Rollback(ExecuteInsert(pg, CaseFileValues(row), row.accepted))
                /\ UNCHANGED okIds

\* After the loop: commit, summary.
CaseFilesFinish ==
    /\ script = "CaseFiles"
    /\ EndsLoop
    /\ pg' = Commit(pg)
    /\ UNCHANGED counters

(***************************************************************************)
(* Invoices/2_..._RadiologistInvoiceCaseServices.py                        *)
(***************************************************************************)
\* build_caseid_mapping: detail case_id -> voxel_cases_id -> cases_id.
caseid_mapping(case_id) == IF case_id = 1 THEN Some(1) ELSE None

RicsBase(k) ==
    [id |-> k, case_id |-> Some(1), created_at |-> Some(0), accepted |-> TRUE,
     foreign_key_error |-> FALSE]

\* Rows of tbl_radiologist_invoices joined with
\* tbl_radiologist_invoice_details; id is the detail_id.
RicsRows(k) ==
    { RicsBase(k),
      [RicsBase(k) EXCEPT !.created_at = None],
      [RicsBase(k) EXCEPT !.case_id = None],
      [RicsBase(k) EXCEPT !.case_id = Some(9)],
      [RicsBase(k) EXCEPT !.accepted = FALSE],
      [RicsBase(k) EXCEPT !.accepted = FALSE, !.foreign_key_error = TRUE] }

\* validate_data for one record: the validated record, or None; createdAt
\* falls back to datetime.now() and updatedAt is datetime.now().
validated_record(record) ==
    IF record.case_id = None THEN None
    ELSE IF caseid_mapping(record.case_id[1]) = None THEN None
    ELSE Some([id |-> record.id, caseId |-> caseid_mapping(record.case_id[1])[1],
               createdAt |-> IF record.created_at = None THEN RunNumber
                             ELSE record.created_at[1],
               updatedAt |-> RunNumber])

RicsCounters == [total_inserted |-> 0, skipped_fk_violations |-> 0]

\* run_migration up to the inserts: prepare_table_for_migration (TRUNCATE,
\* commit, DROP DEFAULT of ricsId, commit) and fetch_source_data.
RicsStart ==
    /\ script = "RadiologistInvoiceCaseServices"
    /\ rowPc = "start"
    /\ rowPc' = "loop"
    /\ pg' = ClearTable(pg)
    /\ schema' = SchemaCommit(AlterOff(schema, ClearTable(pg),
                                       "RadiologistInvoiceCaseServices.ricsId.default"),
                              ClearTable(pg))
    /\ counters' = RicsCounters
    /\ UNCHANGED <<script, nRows, rows, okIds, opts, mem, sanitize>>
    /\ RowsOnly

\* One record through validate_data and insert_target_data: commit after
\* the insert, rollback in the except clause.
RicsRow ==
    /\ script = "RadiologistInvoiceCaseServices"
    /\ \E row \in RicsRows(Len(rows) + 1) :
        /\ ReadsRow(row)
        /\ IF validated_record(row) = None
           THEN UNCHANGED <<pg, counters, okIds>>
           ELSE IF ExecuteOk(pg, row.accepted /\ KeyFree(pg, validated_record(row)[1]))
           THEN /\ counters' = Bump(counters, "total_inserted")
                /\ pg' = Commit(ExecuteInsert(pg, validated_record(row)[1], row.accepted))
                /\ okIds' = okIds \cup {row.id}
           ELSE /\ counters' = IF row.foreign_key_error
                               THEN Bump(counters, "skipped_fk_violations")
                               ELSE counters
                /\ pg' = Rollback(ExecuteInsert(pg, validated_record(row)[1], row.accepted))
                /\ UNCHANGED okIds

\* verify_migration and disconnect_databases.
RicsFinish ==
    /\ script = "RadiologistInvoiceCaseServices"
    /\ EndsLoop
    /\ pg' = Rollback(ExecuteSelect(pg))
    /\ UNCHANGED counters

(***************************************************************************)
(*        A script started again on the destination it left behind         *)
(***************************************************************************)
\* The scripts that clear their destination table before the row loop.
ClearingScripts ==
    {"Cases", "CaseServices", "CaseFiles", "RadiologistInvoiceCaseServices",
     "ClinicLocationServiceCharges"}

\* The scripts that drop a column default for their explicit keys.
DefaultDroppingScripts ==
    {"RadiologistInvoices", "RadiologistInvoiceCaseServices", "ClinicLocationServiceCharges"}

RerunScripts == ClearingScripts \cup DefaultDroppingScripts \cup {"InvoiceCaseServices"}

\* The most source rows of a script that is run twice.
MaxRerunRows == 2

\* The operator starts the finished script a second time: a new process and
\* a new connection, the same legacy rows, the destination as the first run
\* left it.
RunAgain ==
    /\ script \in RerunScripts
    /\ rowPc = "done"
    /\ mem = None
    /\ mem' = Some([source |-> rows, first |-> pg.committed])
    /\ rowPc' = "start"
    /\ rows' = <<>>
    /\ counters' = <<>>
    /\ okIds' = {}
    /\ pg' = [get_postgres_connection EXCEPT !.committed = pg.committed]
    /\ schema' = SchemaRollback(schema)
    /\ UNCHANGED <<script, nRows, opts, sanitize>>
    /\ RowsOnly

InitRerun ==
    /\ script \in RerunScripts
    /\ nRows \in 0..MaxRerunRows
    /\ rows = <<>>
    /\ pg = get_postgres_connection
    /\ counters = <<>>
    /\ okIds = {}
    /\ rowPc = "start"
    /\ opts = LiveOpts
    /\ mem = <<>>
    /\ schema = restored_schema
    /\ sanitize = SanitizeIdle
    /\ OrchIdle /\ GroupIdle /\ StatusIdle

NextRerun ==
    \/ CasesStart
    \/ CasesRow
    \/ CasesFinish
    \/ CaseServicesStart
    \/ CaseServicesRow
    \/ CaseServicesFinish
    \/ CaseFilesStart
    \/ CaseFilesRow
    \/ CaseFilesFinish
    \/ ChargesStart
    \/ ChargesRow
    \/ ChargesFinish
    \/ RadInvStart
    \/ RadInvFetchFails
    \/ RadInvRow
    \/ RadInvFinish
    \/ RicsStart
    \/ RicsRow
    \/ RicsFinish
    \/ IcsStart
    \/ IcsRow
    \/ IcsFinish
    \/ RunAgain

SpecRerun == InitRerun /\ [][NextRerun]_vars

\* C15: a script that drops an auto-increment default has put it back when
\* it exits, whether it succeeded or failed.
C15_DefaultsRestored ==
    (script \in DefaultDroppingScripts /\ rowPc = "done") =>
        {"RadiologistInvoices.riId.default",
         "RadiologistInvoiceCaseServices.ricsId.default",
         "ClinicLocationServiceCharges.clscId.default"} \subseteq schema.committed
\* A destination row without the columns the scripts fill from
\* datetime.now().
Timeless(r) ==
    IF "updatedAt" \in DOMAIN r THEN [r EXCEPT !.createdAt = 0, !.updatedAt = 0]
    ELSE IF "createdAt" \in DOMAIN r THEN [r EXCEPT !.createdAt = 0]
    ELSE r

\* The second run of a script has finished.
SecondRunDone == mem # None /\ rowPc = "done"

Copies(held, invoiceId, caseId) ==
    Cardinality({r \in held : r.invoiceId = invoiceId /\ r.caseId = caseId})

\* C17: after a second run of the InvoiceCaseServices script the destination
\* holds every (invoiceId, caseId) pair as many times as after the first.
C17_NoSecondCopies ==
    (script = "InvoiceCaseServices" /\ SecondRunDone) =>
        \A r \in pg.committed \cup mem[1].first :
            Copies(pg.committed, r.invoiceId, r.caseId)
                = Copies(mem[1].first, r.invoiceId, r.caseId)

(***************************************************************************)
(* Invoices/4_..._InvoiceCaseServices.py : validate_and_sanitize_amount    *)
(***************************************************************************)
\* An amount: SQL NULL, a float that is no number, or the number
\* units + milli/1000 with units = floor(amount).
NullAmount == [kind |-> "null", units |-> 0, milli |-> 0]
NotANumber(kind) == [kind |-> kind, units |-> 0, milli |-> 0]
Number(units, milli) == [kind |-> "number", units |-> units, milli |-> milli]

\* a < b on numbers.
LessThan(a, b) == a.units < b.units \/ (a.units = b.units /\ a.milli < b.milli)

\* MAX_AMOUNT = 99999999.99 and MIN_AMOUNT = -99999999.99
MAX_AMOUNT == Number(99999999, 990)
MIN_AMOUNT == Number(0 - 100000000, 10)

\* A faulty round that always goes up to the next hundredth.
round_2_up(a, float_side) ==
    IF a.milli + 10 - (a.milli % 10) = 1000 THEN Number(a.units + 1, 0)
    ELSE Number(a.units, a.milli + 10 - (a.milli % 10))
\* round(amount_float, 2): the nearest hundredth. An amount half-way
\* between two hundredths goes where its binary float lies, below or above
\* the decimal it was written as.
round_2(a, float_side) ==
    LET digit == a.milli % 10
        down  == Number(a.units, a.milli - digit)
        up    == IF a.milli - digit + 10 = 1000 THEN Number(a.units + 1, 0)
                 ELSE Number(a.units, a.milli - digit + 10)
    IN  IF digit < 5 THEN down
        ELSE IF digit > 5 THEN up
        ELSE IF float_side = "below" THEN down ELSE up

\* A faulty validate_and_sanitize_amount without the two caps.
validate_and_sanitize_amount_uncapped(amount, float_side) ==
    IF amount.kind = "null"
    THEN [sanitized_amount |-> NullAmount, is_valid |-> TRUE, warning |-> FALSE]
    ELSE IF amount.kind # "number"
    THEN [sanitized_amount |-> NullAmount, is_valid |-> FALSE, warning |-> TRUE]
    ELSE [sanitized_amount |-> round_2(amount, float_side), is_valid |-> TRUE,
          warning |-> FALSE]

\* validate_and_sanitize_amount: (sanitized_amount, is_valid, warning).
validate_and_sanitize_amount(amount, float_side) ==
    IF amount.kind = "null"
    THEN [sanitized_amount |-> NullAmount, is_valid |-> TRUE, warning |-> FALSE]
    ELSE IF amount.kind # "number"
    THEN [sanitized_amount |-> NullAmount, is_valid |-> FALSE, warning |-> TRUE]
    ELSE IF LessThan(MAX_AMOUNT, amount)
    THEN [sanitized_amount |-> MAX_AMOUNT, is_valid |-> TRUE, warning |-> TRUE]
    ELSE IF LessThan(amount, MIN_AMOUNT)
    THEN [sanitized_amount |-> MIN_AMOUNT, is_valid |-> TRUE, warning |-> TRUE]
    ELSE [sanitized_amount |-> round_2(amount, float_side), is_valid |-> TRUE,
          warning |-> FALSE]

\* How far from 0, from MAX_AMOUNT and from MIN_AMOUNT the whole units of
\* the amounts tried lie.
AmountSpread == 1

\* The amounts tried: NULL, nan and the infinities, text that is no number,
\* and every thousandth around 0 and around both ends of the range.
AmountInputs ==
    {NullAmount} \cup {NotANumber(k) : k \in {"nan", "inf", "-inf", "text"}}
    \cup { Number(c + d, m) : c \in {0 - 100000000, 0, 99999999},
                              d \in (0 - AmountSpread)..AmountSpread, m \in 0..999 }

FloatSides == {"below", "above"}

InitSanitize ==
    /\ sanitize \in [pc : {"start"}, amount : AmountInputs, float_side : FloatSides]
    /\ opts = <<>> /\ mem = <<>> /\ schema = <<>>
    /\ OrchIdle /\ GroupIdle /\ StatusIdle /\ RowsIdle

\* The call insert_invoice_case_service makes on the amount of a row.
SanitizeAmount ==
    /\ sanitize.pc = "start"
    /\ sanitize' = [pc |-> "once", amount |-> sanitize.amount,
                    float_side |-> sanitize.float_side,
                    first |-> validate_and_sanitize_amount(sanitize.amount,
                                                           sanitize.float_side)]
    /\ UNCHANGED <<orchVars, groupVars, statusVars, rowVars, opts, mem, schema>>

\* The sanitised amount is handed to validate_and_sanitize_amount again.
SanitizeAgain ==
    /\ sanitize.pc = "once"
    /\ \E side \in FloatSides :
        sanitize' = [pc |-> "twice", amount |-> sanitize.amount,
                     float_side |-> sanitize.float_side, first |-> sanitize.first,
                     second |-> validate_and_sanitize_amount(
                                    sanitize.first.sanitized_amount, side)]
    /\ UNCHANGED <<orchVars, groupVars, statusVars, rowVars, opts, mem, schema>>

NextSanitize ==
    \/ SanitizeAmount
    \/ SanitizeAgain

SpecSanitize == InitSanitize /\ [][NextSanitize]_vars

\* MIN_AMOUNT <= a <= MAX_AMOUNT
InRange(a) == ~LessThan(a, MIN_AMOUNT) /\ ~LessThan(MAX_AMOUNT, a)

\* C18: for a non-null finite amount the result of
\* validate_and_sanitize_amount is valid and lies in
\* [-99999999.99, 99999999.99], and sanitising the result again returns the
\* same amount.
C18_SanitizeIdempotent ==
    (sanitize.pc \in {"once", "twice"} /\ sanitize.amount.kind = "number") =>
        /\ sanitize.first.is_valid
        /\ sanitize.first.sanitized_amount.kind = "number"
        /\ InRange(sanitize.first.sanitized_amount)
        /\ sanitize.pc = "twice" =>
              /\ sanitize.second.is_valid
              /\ sanitize.second.sanitized_amount = sanitize.first.sanitized_amount

\* An amount above the range was capped and the cap was sanitised again.
C18_Witness ==
    /\ sanitize.pc = "twice"
    /\ sanitize.amount.kind = "number"
    /\ LessThan(MAX_AMOUNT, sanitize.amount)
    /\ sanitize.second.sanitized_amount = MAX_AMOUNT

\* C19 (as stated): an amount within the range passes through unchanged,
\* amounts taken to the thousandth.
C19_InRangeUnchanged ==
    (sanitize.pc \in {"once", "twice"} /\ sanitize.amount.kind = "number"
        /\ InRange(sanitize.amount)) =>
        sanitize.first.sanitized_amount = sanitize.amount

\* The amounts a and b are at most half a hundredth apart.
WithinHalfCent(a, b) ==
    \/ a.units = b.units /\ a.milli - b.milli \in -5..5
    \/ a.units = b.units + 1 /\ a.milli + 1000 - b.milli \in 0..5
    \/ b.units = a.units + 1 /\ b.milli + 1000 - a.milli \in 0..5

\* C19 (amended): an amount within the range that has at most two decimals
\* passes through unchanged; any other amount within the range comes out as
\* a whole number of hundredths at most half a hundredth away from it.
C19_InRangeRounded ==
    (sanitize.pc \in {"once", "twice"} /\ sanitize.amount.kind = "number"
        /\ InRange(sanitize.amount)) =>
        /\ sanitize.amount.milli % 10 = 0 =>
              sanitize.first.sanitized_amount = sanitize.amount
        /\ sanitize.first.sanitized_amount.milli % 10 = 0
        /\ WithinHalfCent(sanitize.first.sanitized_amount, sanitize.amount)

\* An amount within the range with a third decimal was sanitised, and so
\* was one with two decimals.
C19_Witness ==
    /\ sanitize.pc = "once"
    /\ InRange(sanitize.amount)
    /\ sanitize.amount.kind = "number"
    /\ sanitize.amount.milli % 10 = 5
    /\ sanitize.first.sanitized_amount # sanitize.amount


(***************************************************************************)
(*      The row loops that commit every hundredth accepted row             *)
(***************************************************************************)
BatchScripts == {"Cases", "CaseFiles", "CaseServices", "ClinicLocationServiceCharges"}

\* The rows of the legacy table of a long run.
BatchRows == 105

\* The places in the legacy table where the store may reject a row: the
\* first row, the rows around the first batch commit, the last row.
RejectMarks == {1, CommitEvery, CommitEvery + 1, BatchRows}

\* Row k of the legacy table: a row every check of the script lets through.
BatchRow(name, k, accepted) ==
    CASE name = "Cases" ->
            [cases_id |-> k, doctor_id |-> 1, reffering_doctor |-> None, accepted |-> accepted,
             assigned_radiologist_id |-> None, client_invoice_id |-> None]
      [] name = "CaseServices" -> [CaseServiceBase(k) EXCEPT !.accepted = accepted]
      [] name = "CaseFiles" -> [CaseFileBase(k) EXCEPT !.accepted = accepted]
      [] OTHER -> [usc_id |-> k, services_id |-> 5, user_id |-> 1, accepted |-> accepted]

InitBatch ==
    /\ script \in BatchScripts
    /\ nRows = BatchRows
    /\ rows = <<>>
    /\ pg = get_postgres_connection
    /\ counters = <<>>
    /\ okIds = {}
    /\ rowPc = "start"
    /\ opts = LiveOpts
    /\ \E rejected \in SUBSET RejectMarks :
          mem = Some([source |-> [k \in 1..BatchRows |->
                                     BatchRow(script, k, k \notin rejected)],
                      first |-> {}])
    /\ schema = restored_schema
    /\ sanitize = SanitizeIdle
    /\ OrchIdle /\ GroupIdle /\ StatusIdle

NextBatch ==
    \/ CasesStart
    \/ CasesRow
    \/ CasesFinish
    \/ CaseServicesStart
    \/ CaseServicesRow
    \/ CaseServicesFinish
    \/ CaseFilesStart
    \/ CaseFilesRow
    \/ CaseFilesFinish
    \/ ChargesStart
    \/ ChargesRow
    \/ ChargesFinish

SpecBatch == InitBatch /\ [][NextBatch]_vars

\* The success counter of the row loop.
SuccessCount(c) == IF script = "Cases" THEN c.migrated_count ELSE c.successful_migrations

\* One iteration of the row loop is taken.
RowStep == rowPc = "loop" /\ Len(rows') = Len(rows) + 1

\* The rows inserted and not committed right after the INSERT of the
\* iteration, before its `if count % 100 == 0: commit()`.
UncommittedAfterInsert ==
    IF SuccessCount(counters') = SuccessCount(counters) + 1
    THEN Cardinality(pg.pending) + 1
    ELSE Cardinality(pg.pending)

\* C20 (as stated): at every point of the row loop at most 99 inserted rows
\* are uncommitted, and no step of the loop removes a committed row.
C20_AtMost99Uncommitted ==
    [][RowStep =>
          /\ UncommittedAfterInsert <= CommitEvery - 1
          /\ Cardinality(pg'.pending) <= CommitEvery - 1
          /\ pg.committed \subseteq pg'.committed]_vars

\* C20 (amended): at the end of every iteration of the row loop at most 99
\* inserted rows are uncommitted, within an iteration at most 100 (the
\* hundredth row is inserted before its commit is issued), and no step of
\* the loop, a rollback included, removes a committed row.
C20_BatchCommit ==
    [][RowStep =>
          /\ UncommittedAfterInsert <= CommitEvery
          /\ Cardinality(pg'.pending) <= CommitEvery - 1
          /\ pg.committed \subseteq pg'.committed]_vars

\* A run in which the hundredth accepted row was committed and the last
\* row was rejected and rolled back.
C20_Witness ==
    /\ script \in BatchScripts
    /\ rowPc = "done"
    /\ Len(rows) = BatchRows
    /\ ~rows[BatchRows].accepted
    /\ SuccessCount(counters) >= CommitEvery
    /\ Cardinality(pg.committed) >= CommitEvery

(***************************************************************************)
(*                 The doctor ladder of the Cases migration                *)
(***************************************************************************)
\* The ladder as the specification words it: the olduserid mapping, then
\* the name index, then the skip; Some(uId) or None.
WordedLadder(row) ==
    IF \E u \in UsersSelected : u.olduserid = Some(row.doctor_id)
    THEN Some((CHOOSE u \in UsersSelected : u.olduserid = Some(row.doctor_id)).uId)
    ELSE IF row.reffering_doctor # None
            /\ \E u \in UsersSelected :
                   full_name(u) # <<>>
                   /\ full_name(u) = normalized_name(row.reffering_doctor[1])
         THEN Some((CHOOSE u \in UsersSelected :
                        full_name(u) # <<>>
                        /\ full_name(u) = normalized_name(row.reffering_doctor[1])).uId)
         ELSE None

\* One iteration of the row loop of the Cases migration is taken.
CasesRowStep == script = "Cases" /\ rowPc = "loop" /\ Len(rows') = Len(rows) + 1

\* The iteration skipped its row: nothing sent to the store, the skip
\* counter raised.
SkippedForDoctor ==
    /\ pg' = pg
    /\ counters'.skipped_invalid_doctor_count = counters.skipped_invalid_doctor_count + 1

\* The iteration sent its INSERT with the doctor uid, and what the store
\* holds of the row carries that uid.
InsertedForDoctor(uid) ==
    /\ counters'.skipped_invalid_doctor_count = counters.skipped_invalid_doctor_count
    /\ counters'.migrated_count + counters'.error_count
           = counters.migrated_count + counters.error_count + 1
    /\ \A r \in pg'.committed \cup pg'.pending :
           r.id = CurrentAfter.cases_id => r.doctorUserId = uid
    /\ (CurrentAfter.accepted /\ pg.tx # "aborted") =>
           \E r \in pg'.committed \cup pg'.pending : r.id = CurrentAfter.cases_id

\* C21 (as stated): the doctor is the uId the olduserid mapping gives for
\* doctor_id; failing that, the uId the name index gives for the normalised
\* reffering_doctor; failing that, the row is skipped.
C21_DoctorLadder ==
    [][CasesRowStep =>
          IF WordedLadder(CurrentAfter) = None THEN SkippedForDoctor
          ELSE InsertedForDoctor(WordedLadder(CurrentAfter))]_vars

\* C21 (amended): a row whose doctor_id is no tbl_users.user_id is skipped
\* first; for the others the doctor is the uId the olduserid mapping gives
\* for doctor_id, the name index not being asked; failing that, the uId the
\* name index gives for the normalised reffering_doctor; failing that, the
\* row is skipped. No other user is ever written.
C21_DoctorLadderAfterUserCheck ==
    [][CasesRowStep =>
          IF DoctorResolves(CurrentAfter)
          THEN InsertedForDoctor(Some(ResolvedUid(CurrentAfter)))
          ELSE SkippedForDoctor]_vars

\* A finished run that stored one case by the olduserid mapping although the
\* reffering_doctor names another user, stored one by the name index, and
\* skipped one whose doctor_id is in the olduserid mapping but not in
\* tbl_users.
C21_Witness ==
    /\ script = "Cases"
    /\ rowPc = "done"
    /\ \E i, j, k \in 1..Len(rows) :
           /\ olduserid_to_uid(rows[i].doctor_id) = Some(101)
           /\ rows[i].reffering_doctor # None
           /\ name_to_uid(normalized_name(rows[i].reffering_doctor[1])) = Some(102)
           /\ \E r \in Stored(rows[i].cases_id) : r.doctorUserId = Some(101)
           /\ rows[j].doctor_id = 2
           /\ \E r \in Stored(rows[j].cases_id) : r.doctorUserId = Some(102)
           /\ rows[k].doctor_id \notin tbl_users
           /\ olduserid_to_uid(rows[k].doctor_id) # None
           /\ Stored(rows[k].cases_id) = {}

\* The optional keys of a legacy case that the destination can resolve.
RadiologistResolves(row) ==
    /\ row.assigned_radiologist_id # None
    /\ \E u \in UsersSelected : u.olduserid = row.assigned_radiologist_id

LocationResolves(row) ==
    \E u \in Users, l \in CaseClinicLocations :
        u.olduserid = Some(row.doctor_id) /\ l.ownerUserId = u.uId

InvoiceResolves(row) == row.client_invoice_id # None

tbl_radiologist == {1, 4}

\* uId of the Users rows with "userType" = 'RADIOLOGIST'.  update_radiologist_old_id
\* wrote radiologist_id 4 into the olduserid of row 103; radiologist 1 matched
\* no RADIOLOGIST row by email or name and was counted not_found.
RadiologistUsers == {103}

\* The Users row whose olduserid the Users migration set from
\* tbl_users.user_id = k, and the one the radiologist update set from
\* tbl_radiologist.radiologist_id = k.
DoctorRowsOf(k) ==
    {u \in Users : u.uId \notin RadiologistUsers /\ k \in tbl_users /\ u.olduserid = Some(k)}

RadiologistRowsOf(k) ==
    {u \in Users : u.uId \in RadiologistUsers /\ k \in tbl_radiologist /\ u.olduserid = Some(k)}

\* C25: the two legacy id domains stay apart: in every row the Cases
\* migration holds in the destination, a doctorUserId found through the
\* olduserid mapping is the uId of the Users row that got its olduserid from
\* tbl_users.user_id = doctor_id, and a non-null radioLogistUserId is the uId
\* of the RADIOLOGIST row that got its olduserid from
\* tbl_radiologist.radiologist_id = assigned_radiologist_id.
C25_IdDomainsApart ==
    script = "Cases" =>
        \A i \in 1..Len(rows) : \A r \in Held :
            r.id = rows[i].cases_id =>
               /\ olduserid_to_uid(rows[i].doctor_id) # None =>
                      \E u \in DoctorRowsOf(rows[i].doctor_id) : r.doctorUserId = Some(u.uId)
               /\ r.radioLogistUserId # None =>
                      \E u \in RadiologistRowsOf(rows[i].assigned_radiologist_id[1]) :
                          r.radioLogistUserId = Some(u.uId)

\* C26: when a run of the Cases migration has returned True, migrated_count
\* is the number of rows in "Cases", and migrated_count + error_count +
\* skipped_invalid_doctor_count is the number of source rows.
C26_CountersMatchStore ==
    (script = "Cases" /\ rowPc = "done") =>
        /\ counters.migrated_count = Cardinality(pg.committed)
        /\ counters.migrated_count + counters.error_count
               + counters.skipped_invalid_doctor_count = Len(rows)

\* One iteration of the loop of the CasePatients migration is taken.
CasePatientsRowStep ==
    script = "CasePatients" /\ rowPc = "loop" /\ Len(rows') = Len(rows) + 1

\* The legacy gender is NULL, empty or none of male/m/female/f/other/o once
\* trimmed and lowered.
UnlistedGender(c) ==
    \/ c.gender = None
    \/ strip(str_lower(c.gender[1])) \notin
           {<<"m", "a", "l", "e">>, <<"m">>, <<"f", "e", "m", "a", "l", "e">>, <<"f">>,
            <<"o", "t", "h", "e", "r">>, <<"o">>}

\* Nothing but the gender stands between the case and its migration.
MigratesButForGender(c) ==
    /\ c.doctor_id # None
    /\ c.doctor_id[1] \in valid_doctor_ids
    /\ ~check_existing_case_patient(pg, c.cases_id)
    /\ get_clinic_id_for_doctor(c.doctor_id) # None
    /\ strip(c.patient_firstname) # <<>>
    /\ strip(c.patient_lastname) # <<>>
    /\ c.patient_accepted
    /\ c.case_patient_accepted

\* The iteration migrated its case with the given gender.
MigratedWithGender(g) ==
    /\ counters'.migrated = counters.migrated + 1
    /\ counters'.errors = counters.errors
    /\ counters'.skipped_duplicates = counters.skipped_duplicates
    /\ counters'.skipped_invalid_doctor_count = counters.skipped_invalid_doctor_count
    /\ \E r \in pg'.committed :
           r.id = <<"ClinicPatients", CurrentAfter.cases_id>> /\ r.gender = g
    /\ ~opts.dry_run =>
           \E r \in pg'.committed :
               r.id = <<"CasePatients", CurrentAfter.cases_id>> /\ r.gender = g

\* C23: a case whose legacy gender is NULL, empty or unlisted is still
\* migrated, with gender OTHER: the gender never makes the row a skip or an
\* error.
C23_UnlistedGenderIsOther ==
    [][(CasePatientsRowStep /\ UnlistedGender(CurrentAfter)
           /\ MigratesButForGender(CurrentAfter))
       => MigratedWithGender("OTHER")]_vars

\* C24: a client-invoice row without invoice_no or without invoice_type gives
\* no "Invoices" row and raises the skipped counter by exactly one, and at
\* the end of the run total_records = migrated_records + skipped_records +
\* failed_records.
C24_MissingFieldCountedSkipped ==
    /\ [][(script = "Invoices" /\ rowPc = "loop" /\ Len(rows') = Len(rows) + 1
             /\ (CurrentAfter.invoice_no_len = 0 \/ CurrentAfter.invoice_type = None))
          => /\ pg' = pg
             /\ counters'.skipped_records = counters.skipped_records + 1
             /\ counters'.migrated_records = counters.migrated_records
             /\ counters'.failed_records = counters.failed_records]_vars
    /\ []((script = "Invoices" /\ rowPc = "done" /\ nRows > 0) =>
             nRows = counters.migrated_records + counters.skipped_records
                        + counters.failed_records)

\* The "Clinics" rows the run has committed, and the committed
\* "ClinicLocations" rows of one of them.
ClinicsOfRun == {r \in Table("Clinics") : r.id # ExistingClinic.id}

LocationsOfClinic(c) == {l \in Table("ClinicLocations") : l.clinicId = c.id}

\* C27 (as stated): after every processed practice each "Clinics" row the
\* run committed has exactly one committed "ClinicLocations" row with its
\* clinicId, and migrated_clinics = migrated_clinic_locations = the number
\* of committed pairs.
C27_AtomicPair ==
    (script = "Clinics" /\ rowPc \in {"loop", "done"}) =>
        /\ \A c \in ClinicsOfRun : Cardinality(LocationsOfClinic(c)) = 1
        /\ counters.migrated_clinics = Cardinality(ClinicsOfRun)
        /\ counters.migrated_clinic_locations = Cardinality(ClinicsOfRun)

\* C27 (amended): after every processed practice each "Clinics" row the run
\* committed has exactly one committed "ClinicLocations" row with its
\* clinicId and every "ClinicLocations" row belongs to such a clinic; in a
\* live run migrated_clinics = migrated_clinic_locations = the number of
\* committed pairs, while a dry run commits no pair and counts the pairs it
\* would have written.
C27_AtomicPairLive ==
    (script = "Clinics" /\ rowPc \in {"loop", "done"}) =>
        /\ \A c \in ClinicsOfRun : Cardinality(LocationsOfClinic(c)) = 1
        /\ \A l \in Table("ClinicLocations") : \E c \in ClinicsOfRun : l.clinicId = c.id
        /\ counters.migrated_clinics = counters.migrated_clinic_locations
        /\ IF opts.dry_run THEN ClinicsOfRun = {}
           ELSE counters.migrated_clinics = Cardinality(ClinicsOfRun)

\* A finished live run that committed one pair and met one practice whose
\* "ClinicLocations" insert the store rejected after its "Clinics" insert
\* had been taken.
C27_Witness ==
    /\ script = "Clinics"
    /\ rowPc = "done"
    /\ ~opts.dry_run
    /\ counters.migrated_clinics = 1
    /\ counters.failed = 1
    /\ Cardinality(ClinicsOfRun) = 1
    /\ \E k \in 1..Len(rows) :
           /\ rows[k].clinic_accepted
           /\ ~rows[k].location_accepted
           /\ \A r \in pg.committed : r.id # <<"Clinics", rows[k].practice_id>>

\* The users owning a clinic the connection holds, and the user the
\* practice's user_id is mapped to.
ClinicOwners(db) ==
    {r.ownerUserId : r \in {x \in db.committed \cup db.pending : x.table = "Clinics"}}

MappedOwner(p) ==
    IF p.user_id = None THEN None
    ELSE IF \E u \in Users : u.olduserid = p.user_id THEN
         Some((CHOOSE u \in Users : u.olduserid = p.user_id).uId)
    ELSE IF \E u \in Users : u.uId = p.user_id[1] THEN p.user_id
    ELSE None

\* The second run over the same practices has finished.
SecondClinicsRunDone == script = "Clinics" /\ rowPc = "done" /\ mem[1].source # <<>>

C29_TriggersEnabledOnReturn ==
    (script = "Invoices" /\ rowPc = "done" /\ ~opts.dry_run) =>
        /\ "Invoices.triggers" \in schema.committed
        /\ "Invoices.triggers" \in schema.current

\* The "ClinicPatients" rows the run has committed.
ClinicPatientsOfRun ==
    {r \in Table("ClinicPatients") : r \notin ExistingCasePatients}

\* C30: in a live run of the CasePatients migration every "ClinicPatients"
\* row the run committed is referenced by exactly one committed
\* "CasePatients" row, also after a rejected "CasePatients" insert, and at
\* the end created_clinic_patients = migrated.
C30_PatientsPaired ==
    (script = "CasePatients" /\ ~opts.dry_run /\ rowPc \in {"loop", "done"}) =>
        /\ \A cp \in ClinicPatientsOfRun :
               Cardinality({r \in Table("CasePatients") : r.clinicPatientId = cp.id}) = 1
        /\ rowPc = "done" => counters.created_clinic_patients = counters.migrated

====
